---- MODULE Spec2Model ----
(***************************************************************************)
(* A model of the OneBot11 channel plugin: the inbound authorization and   *)
(* dispatch pipeline (src/src/inbound.ts) and the SSE client               *)
(* (sse-client.ts).                                                        *)
(*                                                                         *)
(* Strings whose content the code inspects are sequences of tokens: a      *)
(* token is a character or a substring the code treats as a unit (a        *)
(* channel prefix, a blank).  Trimming, prefix stripping and lower-casing  *)
(* are computed on those sequences.                                        *)
(***************************************************************************)
EXTENDS Integers, Sequences, FiniteSets, TLC

\* ------------------------------------------------------------------------
\* Bounds of the model
\* ------------------------------------------------------------------------
MaxDmEvents == 3
MaxGateEvents == 2
MaxHistEvents == 3
MaxHistoryLimit == 2

\* ------------------------------------------------------------------------
\* Strings as token sequences
\* ------------------------------------------------------------------------
WS == " "

Prefixes == {"onebot11:", "ob11:", "OB11:", "OneBot11:"}

toLowerCaseTok(t) ==
  CASE t = "OB11:" -> "ob11:"
    [] t = "OneBot11:" -> "onebot11:"
    [] t = "A" -> "a"
    [] t = "G" -> "g"
    [] t = "GROUP:" -> "group:"
    [] t = "Private:" -> "private:"
    [] t = ".JPG" -> ".jpg"
    [] t = "HTTPS://x/" -> "https://x/"
    [] OTHER -> t

toLowerCase(s) == [i \in 1..Len(s) |-> toLowerCaseTok(s[i])]

RECURSIVE trimStart(_)
trimStart(s) == IF s # <<>> /\ Head(s) = WS THEN trimStart(Tail(s)) ELSE s

RECURSIVE trimEnd(_)
trimEnd(s) ==
  IF s # <<>> /\ s[Len(s)] = WS THEN trimEnd(SubSeq(s, 1, Len(s) - 1)) ELSE s

trim(s) == trimEnd(trimStart(s))

\* raw.replace(/^(onebot11|ob11):/i, ""): one prefix, at the start only.
stripChannelPrefix(s) == IF s # <<>> /\ Head(s) \in Prefixes THEN Tail(s) ELSE s

normalizeAllowEntry(raw) == toLowerCase(stripChannelPrefix(trim(raw)))

NonEmptyStr(s) == s # <<>>

\* entries.map(String(entry).trim()).filter(Boolean).map(normalizeAllowEntry)
normalizeAllowlist(entries) ==
  LET trimmed == [i \in 1..Len(entries) |-> trim(entries[i])]
      kept == SelectSeq(trimmed, NonEmptyStr)
  IN [i \in 1..Len(kept) |-> normalizeAllowEntry(kept[i])]

\* Array.from(new Set(values)): first occurrences, in order.
RECURSIVE uniqueInOrder(_)
uniqueInOrder(s) ==
  IF s = <<>> THEN <<>>
  ELSE LET init == uniqueInOrder(SubSeq(s, 1, Len(s) - 1))
           x == s[Len(s)]
       IN IF \E i \in 1..Len(init) : init[i] = x THEN init ELSE Append(init, x)

dedupeAllowlist(entries) ==
  LET mapped == [i \in 1..Len(entries) |-> normalizeAllowEntry(entries[i])]
  IN uniqueInOrder(SelectSeq(mapped, NonEmptyStr))

matchAllowlistNoWildcard(senderId, allowFrom) ==
  \E i \in 1..Len(allowFrom) :
    normalizeAllowEntry(allowFrom[i]) = normalizeAllowEntry(senderId)

matchAllowlist(senderId, allowFrom) ==
  IF \E i \in 1..Len(allowFrom) : allowFrom[i] = <<"*">>
  THEN TRUE
  ELSE \E i \in 1..Len(allowFrom) :
         normalizeAllowEntry(allowFrom[i]) = normalizeAllowEntry(senderId)

\* ------------------------------------------------------------------------
\* Media helpers of the inbound pipeline
\* ------------------------------------------------------------------------
\* An absent (undefined) string field.
Undefined == <<>>

HttpSchemes == {"https://x/", "http://x/"}

extensionType(ext) ==
  CASE ext \in {".jpg", ".jpeg"} -> "image/jpeg"
    [] ext = ".png" -> "image/png"
    [] ext = ".gif" -> "image/gif"
    [] ext = ".webp" -> "image/webp"
    [] ext = ".bmp" -> "image/bmp"
    [] OTHER -> "image/unknown"

IsQueryTok(t) == t \in {"?v=1", "#frag"}

\* A URL may carry a query or fragment after the extension; a local path
\* must end in the extension.
toImageLikeType(value) ==
  IF value = Undefined THEN "image/unknown"
  ELSE LET trimmed == toLowerCase(trim(value))
       IN IF trimmed = <<>> THEN "image/unknown"
          ELSE IF Head(trimmed) \in HttpSchemes
          THEN LET core == IF IsQueryTok(trimmed[Len(trimmed)])
                           THEN SubSeq(trimmed, 1, Len(trimmed) - 1)
                           ELSE trimmed
               IN IF core = <<>> THEN "image/unknown"
                  ELSE extensionType(core[Len(core)])
          ELSE extensionType(trimmed[Len(trimmed)])

NonBlankStr(s) == trim(s) # <<>>

dedupeStrings(values) == uniqueInOrder(SelectSeq(values, NonBlankStr))

collectImageMediaFromEvent(event) ==
  LET urls == dedupeStrings(event.imageUrls)
      paths == dedupeStrings(event.imagePaths)
  IN [i \in 1..Len(urls) |->
        [path |-> Undefined, url |-> urls[i], type |-> toImageLikeType(urls[i])]]
     \o
     [i \in 1..Len(paths) |->
        [path |-> paths[i], url |-> Undefined, type |-> toImageLikeType(paths[i])]]

RECURSIVE collectHistoryMediaEntries(_)
collectHistoryMediaEntries(entries) ==
  IF entries = <<>> THEN <<>>
  ELSE collectImageMediaFromEvent(Head(entries))
       \o collectHistoryMediaEntries(Tail(entries))

HasPathOrUrl(entry) == entry.path # Undefined \/ entry.url # Undefined

NoMediaPayload ==
  [present |-> FALSE, MediaPath |-> Undefined, MediaType |-> "",
   MediaUrl |-> Undefined, MediaPaths |-> <<>>, MediaUrls |-> <<>>,
   MediaTypes |-> <<>>]

pathOrUrl(entry) == IF entry.path # Undefined THEN entry.path ELSE entry.url

urlOrPath(entry) == IF entry.url # Undefined THEN entry.url ELSE entry.path

buildMediaPayload(mediaEntries) ==
  LET filtered == SelectSeq(mediaEntries, HasPathOrUrl)
  IN IF filtered = <<>> THEN NoMediaPayload
     ELSE [present |-> TRUE,
           MediaPath |-> pathOrUrl(filtered[1]),
           MediaType |-> filtered[1].type,
           MediaUrl |-> urlOrPath(filtered[1]),
           MediaPaths |-> [i \in 1..Len(filtered) |-> pathOrUrl(filtered[i])],
           MediaUrls |-> [i \in 1..Len(filtered) |-> urlOrPath(filtered[i])],
           MediaTypes |-> [i \in 1..Len(filtered) |-> filtered[i].type]]

\* ------------------------------------------------------------------------
\* History helpers
\* ------------------------------------------------------------------------
isAiRelatedHistoryEntry(entry) == entry.aiRelated = TRUE

selectHistoryEntriesIgnoringStrategy(entries, strategy) == entries

selectHistoryEntriesByStrategy(entries, strategy) ==
  IF strategy = "ai-related-only"
  THEN SelectSeq(entries, isAiRelatedHistoryEntry)
  ELSE entries

\* The host SDK's pending-history helpers, as the pipeline relies on them:
\* append, then drop from the front while the list is longer than the limit.
RECURSIVE shiftWhileOver(_, _)
shiftWhileOver(history, limit) ==
  IF Len(history) > limit THEN shiftWhileOver(Tail(history), limit) ELSE history

recordPendingHistoryEntryIfEnabled(historyMap, historyKey, limit, entry, hasEntry) ==
  IF ~hasEntry \/ limit <= 0 THEN historyMap
  ELSE [historyMap EXCEPT
          ![historyKey] = shiftWhileOver(Append(@, entry), limit)]

clearHistoryEntriesIfEnabled(historyMap, historyKey, limit) ==
  IF limit <= 0 THEN historyMap
  ELSE [historyMap EXCEPT ![historyKey] = <<>>]

\* The host SDK's command gate (mode "allow" when access groups are off).
resolveControlCommandGate(useAccessGroups, configured, allowed, allowTextCommands, hasControlCommand) ==
  LET commandAuthorized ==
        IF ~useAccessGroups THEN TRUE ELSE configured /\ allowed
  IN [commandAuthorized |-> commandAuthorized,
      shouldBlock |-> allowTextCommands /\ hasControlCommand /\ ~commandAuthorized]

\* The host SDK's mention gate with command bypass.
resolveMentionGatingWithBypass(isGroup, requireMention, canDetectMention, wasMentioned, hasAnyMention, allowTextCommands, hasControlCommand, commandAuthorized) ==
  LET shouldBypassMention ==
        isGroup /\ requireMention /\ ~wasMentioned /\ ~hasAnyMention
        /\ allowTextCommands /\ commandAuthorized /\ hasControlCommand
      effectiveWasMentioned == wasMentioned \/ shouldBypassMention
  IN [effectiveWasMentioned |-> effectiveWasMentioned,
      shouldSkip |-> requireMention /\ canDetectMention /\ ~effectiveWasMentioned,
      shouldBypassMention |-> shouldBypassMention]

\* ------------------------------------------------------------------------
\* Inputs of the inbound pipeline: ids, media references, texts
\* ------------------------------------------------------------------------
U7 == <<"7">>
U8 == <<"8">>
UA == <<"A">>
G5 == <<"5">>
GG == <<"G">>

UrlOld == <<"https://x/", "old", ".png">>
UrlNew == <<"HTTPS://x/", "new", ".JPG", "?v=1">>
PathNew == <<"./", "new", ".jpg">>
PathQuery == <<"./", "p", ".png", "?v=1">>
BlankStr == <<WS>>

TextHi == <<WS, "hi">>
TextStop == <<"/stop">>

\* core.channel.text.hasControlCommand: the host recognises "/stop".
hasControlCommandText(rawBody) == rawBody # <<>> /\ Head(rawBody) = "/stop"

BaseConfig ==
  [dmPolicy |-> "unset", allowFrom |-> <<>>,
   groupPolicy |-> "unset", defaultGroupPolicy |-> "unset",
   groupAllowFrom |-> <<>>, mentionAllowFrom |-> <<>>,
   requireMention |-> "unset", historyLimit |-> 1,
   historyStrategy |-> "unset",
   allowTextCommands |-> FALSE, useAccessGroups |-> TRUE]

dmPolicyOf(c) == IF c.dmPolicy = "unset" THEN "pairing" ELSE c.dmPolicy

groupPolicyOf(c) ==
  IF c.groupPolicy # "unset" THEN c.groupPolicy
  ELSE IF c.defaultGroupPolicy # "unset" THEN c.defaultGroupPolicy
  ELSE "allowlist"

requireMentionOf(c) ==
  IF c.requireMention = "unset" THEN TRUE ELSE c.requireMention = "true"

historyStrategyOf(c) ==
  IF c.historyStrategy = "unset" THEN "recent" ELSE c.historyStrategy

BaseEvent ==
  [chatType |-> "private", chatId |-> U7, senderId |-> U7,
   senderName |-> Undefined, messageId |-> 0, timestampMs |-> 0,
   text |-> TextHi, wasMentioned |-> FALSE,
   imageUrls |-> <<>>, imagePaths |-> <<>>]

ChatIds == {G5, GG, U7, U8, UA}

\* ------------------------------------------------------------------------
\* State
\* ------------------------------------------------------------------------
\* No SSE client has been constructed.
NoSseClient == [pc |-> "none"]

\* No outbound adapter call has been made.
NoOutbound == [pc |-> "none"]

\* No library function is being applied.
NoCall == [pc |-> "none"]

\* No monitor has been started.
NoMonitor == [pc |-> "none"]

VARIABLES
  cfg,              \* the resolved account configuration handed to the handler
  groupHistories,   \* the module-level pending-history map, by chat id
  pairingRequests,  \* host pairing store: sender ids with a pending request
  storeAllowFrom,   \* host pairing store: approved sender ids
  pc,               \* "idle", or "dispatching" while the reply dispatch is awaited
  last,             \* what the latest handler invocation did
  arrivals,         \* per chat, the entries recorded since the last clear
  nEvents,          \* number of inbound events handled so far
  sse,              \* the SSE client: its fields, its position, what it did
  out,              \* the outbound adapter call in progress and what it did
  call,             \* a library function's arguments and, once applied, its result
  mon               \* the provider monitor: its account, its position, what it did

inboundVars ==
  <<cfg, groupHistories, pairingRequests, storeAllowFrom, pc, last, arrivals, nEvents>>

otherThanInbound == <<sse, out, call, mon>>

otherThanSse == <<inboundVars, out, call, mon>>

otherThanOutbound == <<inboundVars, sse, call, mon>>

otherThanCall == <<inboundVars, sse, out, mon>>

vars == <<inboundVars, sse, out, call, mon>>

NoEntry ==
  [sender |-> <<>>, body |-> <<>>, timestamp |-> 0, messageId |-> 0,
   imageUrls |-> <<>>, imagePaths |-> <<>>, aiRelated |-> FALSE]

NoOutcome ==
  [stage |-> "none", event |-> BaseEvent, storeRead |-> <<>>,
   upserted |-> FALSE, created |-> FALSE, pairingReply |-> FALSE,
   recorded |-> FALSE, entry |-> NoEntry,
   sessionRecorded |-> FALSE, dispatched |-> FALSE,
   selected |-> <<>>, InboundHistory |-> <<>>, hasInboundHistory |-> FALSE,
   media |-> NoMediaPayload, WasMentioned |-> FALSE,
   CommandAuthorized |-> FALSE,
   done |-> FALSE, queuedFinal |-> FALSE,
   removed |-> <<>>, cleared |-> [k \in ChatIds |-> <<>>]]

\* ------------------------------------------------------------------------
\* Host pairing store (external collaborator)
\* ------------------------------------------------------------------------
\* core.channel.pairing.upsertPairingRequest: created iff no request for the
\* id is pending yet.
upsertPairingRequest(requests, id) ==
  [created |-> id \notin requests, requests |-> requests \cup {id}]

\* core.channel.pairing.readAllowFromStore(...).catch(() => [])
readAllowFromStore(store, readOk) == IF readOk THEN store ELSE <<>>

\* ------------------------------------------------------------------------
\* handleOneBot11Inbound
\* ------------------------------------------------------------------------
effectiveAllowFromOf(c, storeRead) ==
  dedupeAllowlist(normalizeAllowlist(c.allowFrom) \o normalizeAllowlist(storeRead))

effectiveGroupAllowOf(c) == dedupeAllowlist(normalizeAllowlist(c.groupAllowFrom))

effectiveMentionAllowOf(c) == dedupeAllowlist(normalizeAllowlist(c.mentionAllowFrom))

dmDecisionPairingAsAllowlist(dmPolicy, allowed) ==
  IF dmPolicy = "disabled" THEN "dmDisabled"
  ELSE IF dmPolicy # "open" /\ ~allowed THEN "dmDenied"
  ELSE "pass"

\* The DM policy branch: what happens to a private message.
dmDecision(dmPolicy, allowed) ==
  IF dmPolicy = "disabled" THEN "dmDisabled"
  ELSE IF dmPolicy # "open" /\ ~allowed
       THEN IF dmPolicy = "pairing" THEN "dmPairing" ELSE "dmDenied"
       ELSE "pass"

groupDecisionIgnoringAllowlist(groupPolicy, chatAllowed) ==
  IF groupPolicy = "disabled" THEN "groupDisabled" ELSE "pass"

\* The group policy branch.
groupDecision(groupPolicy, chatAllowed) ==
  IF groupPolicy = "disabled" THEN "groupDisabled"
  ELSE IF groupPolicy # "open" /\ ~chatAllowed THEN "groupDenied"
  ELSE "pass"

historySenderOf(event) ==
  IF trim(event.senderName) # <<>> THEN trim(event.senderName)
  ELSE IF event.chatType = "group" THEN <<"user:">> \o event.senderId
  ELSE <<"dm:">> \o event.senderId

bodyOrImage(rawBody) == IF rawBody # <<>> THEN rawBody ELSE <<"[Image]">>

buildHistoryEntry(event, rawBody, aiRelated) ==
  [sender |-> historySenderOf(event),
   body |-> bodyOrImage(rawBody),
   timestamp |-> event.timestampMs,
   messageId |-> event.messageId,
   imageUrls |-> dedupeStrings(event.imageUrls),
   imagePaths |-> dedupeStrings(event.imagePaths),
   aiRelated |-> aiRelated]

\* The mention gate of a group message: skipped for lack of a mention.
mentionSkip(isGroup, requireMention, mentionGate) ==
  isGroup /\ requireMention /\ mentionGate.shouldSkip

mentionSenderNeverDenied(isGroup, mentionGate, effectiveMentionAllow, senderId) == FALSE

\* The mention allow-list gate.
mentionSenderDenied(isGroup, mentionGate, effectiveMentionAllow, senderId) ==
  /\ isGroup
  /\ mentionGate.effectiveWasMentioned
  /\ Len(effectiveMentionAllow) > 0
  /\ ~matchAllowlist(senderId, effectiveMentionAllow)

selectedHistoryEntriesOf(isGroup, historyLimit, buffered, strategy) ==
  IF isGroup /\ historyLimit > 0
  THEN selectHistoryEntriesByStrategy(buffered, strategy)
  ELSE <<>>

inboundHistoryOf(selected) ==
  [i \in 1..Len(selected) |->
     [sender |-> selected[i].sender, body |-> selected[i].body,
      timestamp |-> selected[i].timestamp]]

mergedMediaEntriesCurrentFirst(selected, eventMediaEntries) ==
  eventMediaEntries \o collectHistoryMediaEntries(selected)

mergedMediaEntries(selected, eventMediaEntries) ==
  collectHistoryMediaEntries(selected) \o eventMediaEntries

\* The handler from its entry to the point where it returns or awaits the
\* reply dispatch: the outcome record says which branch was taken and what
\* was built on the way.
Pipeline(c, histories, requests, storeRead, event) ==
  LET rawBody == trim(event.text)
      eventMediaEntries == collectImageMediaFromEvent(event)
      isGroup == event.chatType = "group"
      dmPolicy == dmPolicyOf(c)
      groupPolicy == groupPolicyOf(c)
      effectiveAllowFrom == effectiveAllowFromOf(c, storeRead)
      effectiveGroupAllow == effectiveGroupAllowOf(c)
      effectiveMentionAllow == effectiveMentionAllowOf(c)
      hasControlCommand == hasControlCommandText(rawBody)
      senderAllowedForCommands ==
        IF isGroup
        THEN groupPolicy = "open" \/ matchAllowlist(event.chatId, effectiveGroupAllow)
        ELSE matchAllowlist(event.senderId, effectiveAllowFrom)
      commandGate ==
        resolveControlCommandGate(
          c.useAccessGroups,
          Len(IF isGroup THEN effectiveGroupAllow ELSE effectiveAllowFrom) > 0,
          senderAllowedForCommands, c.allowTextCommands, hasControlCommand)
      policy ==
        IF isGroup
        THEN groupDecision(groupPolicy, matchAllowlist(event.chatId, effectiveGroupAllow))
        ELSE dmDecision(dmPolicy, matchAllowlist(event.senderId, effectiveAllowFrom))
      requireMention == requireMentionOf(c)
      mentionGate ==
        resolveMentionGatingWithBypass(
          isGroup, requireMention, isGroup, event.wasMentioned, event.wasMentioned,
          c.allowTextCommands, hasControlCommand, commandGate.commandAuthorized)
      historyEntry ==
        buildHistoryEntry(event, rawBody,
          mentionGate.effectiveWasMentioned \/ (c.allowTextCommands /\ hasControlCommand))
      buffered == histories[event.chatId]
      selected ==
        selectedHistoryEntriesOf(isGroup, c.historyLimit, buffered, historyStrategyOf(c))
      base == [NoOutcome EXCEPT !.event = event, !.storeRead = storeRead]
  IN IF rawBody = <<>> /\ eventMediaEntries = <<>>
     THEN [base EXCEPT !.stage = "empty"]
     ELSE IF policy = "dmPairing"
     THEN LET up == upsertPairingRequest(requests, event.senderId)
          IN [base EXCEPT !.stage = policy, !.upserted = TRUE,
                          !.created = up.created, !.pairingReply = up.created]
     ELSE IF policy # "pass"
     THEN [base EXCEPT !.stage = policy]
     ELSE IF isGroup /\ commandGate.shouldBlock
     THEN [base EXCEPT !.stage = "commandBlocked"]
     ELSE IF mentionSkip(isGroup, requireMention, mentionGate)
     THEN [base EXCEPT !.stage = "noMention", !.recorded = TRUE,
                       !.entry = historyEntry]
     ELSE IF mentionSenderDenied(isGroup, mentionGate, effectiveMentionAllow, event.senderId)
     THEN [base EXCEPT !.stage = "mentionDenied", !.recorded = TRUE,
                       !.entry = historyEntry]
     ELSE [base EXCEPT
             !.stage = "dispatch",
             !.sessionRecorded = TRUE,
             !.dispatched = TRUE,
             !.selected = selected,
             !.hasInboundHistory = (isGroup /\ c.historyLimit > 0),
             !.InboundHistory =
                IF isGroup /\ c.historyLimit > 0 THEN inboundHistoryOf(selected) ELSE <<>>,
             !.media = buildMediaPayload(mergedMediaEntries(selected, eventMediaEntries)),
             !.WasMentioned = (isGroup /\ mentionGate.effectiveWasMentioned),
             !.CommandAuthorized = commandGate.commandAuthorized]

recordDroppedEntrySkipped(historyMap, c, outcome) == historyMap

recordDroppedEntryLimitPlusOne(historyMap, c, outcome) ==
  recordPendingHistoryEntryIfEnabled(
    historyMap, outcome.event.chatId, c.historyLimit + 1, outcome.entry,
    outcome.event.chatType = "group")

\* The buffer write of a dropped group message.
recordDroppedEntry(historyMap, c, outcome) ==
  recordPendingHistoryEntryIfEnabled(
    historyMap, outcome.event.chatId, c.historyLimit, outcome.entry,
    outcome.event.chatType = "group")

clearAfterDispatchWhenQueued(historyMap, c, event, queuedFinal) ==
  IF event.chatType = "group" /\ queuedFinal
  THEN clearHistoryEntriesIfEnabled(historyMap, event.chatId, c.historyLimit)
  ELSE historyMap

\* The buffer clear once the dispatch has returned (either branch of
\* queuedFinal).
clearAfterDispatch(historyMap, c, event, queuedFinal) ==
  IF event.chatType = "group"
  THEN clearHistoryEntriesIfEnabled(historyMap, event.chatId, c.historyLimit)
  ELSE historyMap

\* One inbound event: the handler runs up to its return or to the awaited
\* dispatch.  readOk: whether the read of the pairing store succeeds (a
\* failure is caught and reads as an empty store).
handleOneBot11Inbound(ev, readOk, maxEvents) ==
  /\ pc = "idle"
  /\ nEvents < maxEvents
  /\ \E o \in {Pipeline(cfg, groupHistories, pairingRequests,
                         readAllowFromStore(storeAllowFrom, readOk),
                         [ev EXCEPT !.messageId = nEvents + 1,
                                    !.timestampMs = nEvents + 1])} :
        /\ last' = [o EXCEPT !.cleared = last.cleared]
        /\ pairingRequests' =
             IF o.upserted
             THEN upsertPairingRequest(pairingRequests, o.event.senderId).requests
             ELSE pairingRequests
        /\ groupHistories' =
             IF o.recorded THEN recordDroppedEntry(groupHistories, cfg, o)
             ELSE groupHistories
        /\ arrivals' =
             IF o.recorded
             THEN [arrivals EXCEPT ![o.event.chatId] = Append(@, o.entry)]
             ELSE arrivals
        /\ pc' = IF o.dispatched THEN "dispatching" ELSE "idle"
  /\ nEvents' = nEvents + 1
  /\ UNCHANGED <<cfg, storeAllowFrom>>
  /\ UNCHANGED otherThanInbound

\* The entries of a buffer that are gone after the clear.
removedByClear(before, after) ==
  SelectSeq(before, LAMBDA e : \A j \in 1..Len(after) : after[j] # e)

\* The awaited reply dispatch returns; the handler clears the chat's buffer
\* and returns.  last.removed: the entries this clear removed; last.cleared:
\* per chat, every entry removed by a post-dispatch clear so far.
dispatchReturns(queuedFinal) ==
  /\ pc = "dispatching"
  /\ groupHistories' = clearAfterDispatch(groupHistories, cfg, last.event, queuedFinal)
  /\ arrivals' =
       IF last.event.chatType = "group" /\ cfg.historyLimit > 0
       THEN [arrivals EXCEPT ![last.event.chatId] = <<>>]
       ELSE arrivals
  /\ last' = [last EXCEPT !.done = TRUE, !.queuedFinal = queuedFinal,
                          !.removed = removedByClear(groupHistories[last.event.chatId],
                                                     groupHistories'[last.event.chatId]),
                          !.cleared[last.event.chatId] =
                             @ \o removedByClear(groupHistories[last.event.chatId],
                                                 groupHistories'[last.event.chatId])]
  /\ pc' = "idle"
  /\ UNCHANGED <<cfg, pairingRequests, storeAllowFrom, nEvents>>
  /\ UNCHANGED otherThanInbound

\* The operator approves a pending pairing request: the host persists the
\* sender id into its allow-from store.
approvePairing(id) ==
  /\ id \in pairingRequests
  /\ pairingRequests' = pairingRequests \ {id}
  /\ storeAllowFrom' = Append(storeAllowFrom, id)
  /\ UNCHANGED <<cfg, groupHistories, pc, last, arrivals, nEvents>>
  /\ UNCHANGED otherThanInbound

\* The pairing store is persisted by the host: it may hold an approval from
\* an earlier run.
InitInbound(configs, stores) ==
  /\ cfg \in configs
  /\ groupHistories = [k \in ChatIds |-> <<>>]
  /\ pairingRequests = {}
  /\ storeAllowFrom \in stores
  /\ pc = "idle"
  /\ last = NoOutcome
  /\ arrivals = [k \in ChatIds |-> <<>>]
  /\ nEvents = 0
  /\ sse = NoSseClient
  /\ out = NoOutbound
  /\ call = NoCall
  /\ mon = NoMonitor

\* ------------------------------------------------------------------------
\* Private messages: DM policy and pairing
\* ------------------------------------------------------------------------
DmAllowLists ==
  { <<>>,
    << <<"*">> >>,
    << <<WS, "OB11:", "7">> >>,
    << <<"onebot11:", "a">>, BlankStr >>,
    << <<"OneBot11:", "*">>, <<"9">> >> }

\* The config schema accepts dmPolicy "open" only with "*" in allowFrom.
DmConfigs ==
  { [BaseConfig EXCEPT !.dmPolicy = p, !.allowFrom = l] :
      p \in {"unset", "pairing", "allowlist", "disabled"},
      l \in DmAllowLists }
  \cup
  { [BaseConfig EXCEPT !.dmPolicy = "open", !.allowFrom = << <<"*">> >>] }

DmEvents ==
  { [BaseEvent EXCEPT !.chatId = u, !.senderId = u, !.text = t, !.imageUrls = i] :
      u \in {U7, U8, UA}, t \in {TextHi, BlankStr}, i \in {<<>>, <<UrlOld>>} }

InitDm == InitInbound(DmConfigs, {<<>>, <<U8>>})

NextDm ==
  \/ \E ev \in DmEvents, readOk \in BOOLEAN :
       handleOneBot11Inbound(ev, readOk, MaxDmEvents)
  \/ \E q \in BOOLEAN : dispatchReturns(q)
  \/ \E id \in {U7, U8, UA} : approvePairing(id)

SpecDm == InitDm /\ [][NextDm]_vars

\* ------------------------------------------------------------------------
\* Group messages: group policy, command block, mention gate
\* ------------------------------------------------------------------------
GatePolicies ==
  { <<"unset", "unset">>, <<"unset", "open">>, <<"allowlist", "open">>,
    <<"open", "unset">>, <<"disabled", "unset">> }

GateGroupAllowLists ==
  { <<>>,
    << <<WS, "OB11:", "g">>, BlankStr >>,
    << <<"OneBot11:", "*">> >> }

\* <<mentionAllowFrom, allowTextCommands, useAccessGroups>>
GateCommandSettings ==
  { << <<>>, FALSE, TRUE >>,
    << <<U7>>, FALSE, TRUE >>,
    << <<>>, TRUE, TRUE >>,
    << <<>>, TRUE, FALSE >>,
    << <<U7>>, TRUE, FALSE >> }

GateConfigs ==
  { [BaseConfig EXCEPT
       !.groupPolicy = p[1], !.defaultGroupPolicy = p[2],
       !.groupAllowFrom = l, !.requireMention = r,
       !.mentionAllowFrom = m[1], !.allowTextCommands = m[2],
       !.useAccessGroups = m[3]] :
      p \in GatePolicies, l \in GateGroupAllowLists,
      r \in {"unset", "true", "false"}, m \in GateCommandSettings }

GateEvents ==
  { [BaseEvent EXCEPT !.chatType = "group", !.chatId = g, !.senderId = u,
                      !.text = t, !.wasMentioned = w] :
      g \in {G5, GG}, u \in {U7, U8}, t \in {TextHi, TextStop}, w \in BOOLEAN }

InitGate == InitInbound(GateConfigs, {<<>>})

NextGate ==
  \/ \E ev \in GateEvents : handleOneBot11Inbound(ev, TRUE, MaxGateEvents)
  \/ \E q \in BOOLEAN : dispatchReturns(q)

SpecGate == InitGate /\ [][NextGate]_vars

\* ------------------------------------------------------------------------
\* Group messages: pending history and media carry-over
\* ------------------------------------------------------------------------
HistConfigs ==
  { [BaseConfig EXCEPT
       !.groupPolicy = "open", !.mentionAllowFrom = m,
       !.historyLimit = n, !.historyStrategy = st] :
      m \in {<<>>, <<U7>>}, n \in 1..MaxHistoryLimit,
      st \in {"unset", "recent", "ai-related-only"} }

\* <<imageUrls, imagePaths>>
BufferedImages ==
  { << <<>>, <<>> >>,
    << <<UrlOld>>, <<>> >>,
    << <<UrlOld, BlankStr, UrlOld>>, <<PathQuery>> >> }

MentionImages ==
  { << <<>>, <<>> >>,
    << <<UrlNew>>, <<PathNew>> >> }

HistEvents ==
  { [BaseEvent EXCEPT !.chatType = "group", !.chatId = g, !.senderId = U8,
                      !.imageUrls = i[1], !.imagePaths = i[2]] :
      g \in {G5, GG}, i \in BufferedImages }
  \cup
  { [BaseEvent EXCEPT !.chatType = "group", !.chatId = g, !.senderId = u,
                      !.wasMentioned = TRUE,
                      !.imageUrls = i[1], !.imagePaths = i[2]] :
      g \in {G5, GG}, u \in {U7, U8}, i \in MentionImages }
  \cup
  { [BaseEvent EXCEPT !.chatType = "group", !.chatId = g, !.senderId = U8,
                      !.senderName = <<WS, "Bob">>, !.text = BlankStr,
                      !.imageUrls = <<UrlOld>>] :
      g \in {G5, GG} }

InitHist == InitInbound(HistConfigs, {<<>>})

NextHist ==
  \/ \E ev \in HistEvents : handleOneBot11Inbound(ev, TRUE, MaxHistEvents)
  \/ \E q \in BOOLEAN : dispatchReturns(q)

SpecHist == InitHist /\ [][NextHist]_vars

\* ------------------------------------------------------------------------
\* Properties of the DM policy branch
\* ------------------------------------------------------------------------
\* The latest handler invocation handled a private message that passed the
\* entry check (non-empty text or at least one image).
HandledPrivate ==
  /\ last.stage \notin {"none", "empty"}
  /\ last.event.chatType = "private"

\* The sender matches the effective allow-list: config allowFrom united with
\* the store as read, normalized; "*" matches anyone.
SenderInEffectiveAllowList ==
  LET eff == effectiveAllowFromOf(cfg, last.storeRead)
  IN \/ \E i \in 1..Len(eff) : eff[i] = <<"*">>
     \/ \E i \in 1..Len(eff) : eff[i] = normalizeAllowEntry(last.event.senderId)

SenderApprovedInStore ==
  \E i \in 1..Len(last.storeRead) : last.storeRead[i] = last.event.senderId

\* C1: under dmPolicy "pairing" a private message from a sender outside the
\* effective allow-list upserts a pairing request, sends the pairing reply
\* iff the upsert created the request, and is neither dispatched nor
\* recorded; a message from a sender the store reports approved is
\* dispatched once, recorded once, and gets no pairing reply.
C1_PairingFlow ==
  (HandledPrivate /\ dmPolicyOf(cfg) = "pairing") =>
    /\ ~SenderInEffectiveAllowList =>
         /\ last.upserted
         /\ last.pairingReply <=> last.created
         /\ ~last.dispatched /\ ~last.sessionRecorded
         /\ pc = "idle"
         /\ \/ last.event.senderId \in pairingRequests
            \/ \E i \in 1..Len(storeAllowFrom) : storeAllowFrom[i] = last.event.senderId
    /\ SenderApprovedInStore =>
         /\ last.dispatched /\ last.sessionRecorded
         /\ ~last.pairingReply /\ ~last.upserted

C1_Witness ==
  /\ HandledPrivate /\ dmPolicyOf(cfg) = "pairing"
  /\ last.event.senderId = U7
  /\ SenderApprovedInStore
  /\ ~matchAllowlist(U7, effectiveAllowFromOf(cfg, <<>>))
  /\ last.dispatched /\ last.done

HandledGroup ==
  /\ last.stage \notin {"none", "empty"}
  /\ last.event.chatType = "group"

\* The chat id matches the effective group allow-list (groupAllowFrom,
\* prefix-stripped and case-normalized; "*" matches any chat).
ChatInGroupAllowList ==
  LET eff == effectiveGroupAllowOf(cfg)
  IN \/ \E i \in 1..Len(eff) : eff[i] = <<"*">>
     \/ \E i \in 1..Len(eff) : eff[i] = normalizeAllowEntry(last.event.chatId)

PassedGroupPolicy ==
  /\ groupPolicyOf(cfg) # "disabled"
  /\ groupPolicyOf(cfg) = "open" \/ ChatInGroupAllowList

\* C3: a group message is never dispatched under groupPolicy "disabled", and
\* otherwise only if the policy is "open" or the chat id matches the
\* effective group allow-list.
C3_GroupPolicy ==
  HandledGroup =>
    /\ groupPolicyOf(cfg) = "disabled" => ~last.dispatched
    /\ last.dispatched => (groupPolicyOf(cfg) = "open" \/ ChatInGroupAllowList)

C3_Witness ==
  /\ HandledGroup /\ last.dispatched
  /\ groupPolicyOf(cfg) = "allowlist"
  /\ last.event.chatId = GG
  /\ ~(\E i \in 1..Len(effectiveGroupAllowOf(cfg)) : effectiveGroupAllowOf(cfg)[i] = <<"*">>)

LastIsControlCommand == hasControlCommandText(trim(last.event.text))

\* The sender of a group message is authorized for commands.
GroupCommandAuthorized ==
  \/ ~cfg.useAccessGroups
  \/ /\ Len(effectiveGroupAllowOf(cfg)) > 0
     /\ groupPolicyOf(cfg) = "open" \/ ChatInGroupAllowList

\* A control command that bypasses the mention requirement.
BypassingCommand ==
  cfg.allowTextCommands /\ LastIsControlCommand /\ GroupCommandAuthorized

\* A control command blocked as unauthorized.
BlockedCommand ==
  cfg.allowTextCommands /\ LastIsControlCommand /\ ~GroupCommandAuthorized

MentionGateUnsatisfied ==
  /\ HandledGroup
  /\ requireMentionOf(cfg)
  /\ PassedGroupPolicy
  /\ ~last.event.wasMentioned
  /\ ~BypassingCommand

\* The buffer of the event's chat ends with the entry of the latest event.
LastEventBuffered ==
  LET h == groupHistories[last.event.chatId]
  IN /\ h # <<>>
     /\ h[Len(h)].timestamp = last.event.timestampMs
     /\ h[Len(h)].messageId = last.event.messageId
     /\ h[Len(h)].body = trim(last.event.text)
     /\ h[Len(h)].sender = <<"user:">> \o last.event.senderId

\* C4 as stated: with requireMention true, a group message that passes group
\* policy and is neither mentioned nor a bypassing control command is not
\* dispatched, not recorded as a session, and is appended to the chat's
\* pending-history buffer before the handler returns.
C4_AsStated ==
  MentionGateUnsatisfied =>
    /\ ~last.dispatched /\ ~last.sessionRecorded
    /\ pc = "idle"
    /\ LastEventBuffered

\* C4 amended: the same, for a message that is not blocked as an unauthorized
\* control command (such a message is dropped before the mention gate and is
\* not buffered).
C4_MentionGateBuffers ==
  (MentionGateUnsatisfied /\ ~BlockedCommand) =>
    /\ ~last.dispatched /\ ~last.sessionRecorded
    /\ pc = "idle"
    /\ LastEventBuffered

C4_Witness ==
  /\ MentionGateUnsatisfied /\ ~BlockedCommand
  /\ cfg.requireMention = "unset"
  /\ LastIsControlCommand
  /\ Len(groupHistories[last.event.chatId]) = 1
  /\ nEvents = 2

\* ------------------------------------------------------------------------
\* Properties of the pending history
\* ------------------------------------------------------------------------
DispatchingGroup == pc = "dispatching" /\ last.event.chatType = "group"

BufferOfLast == groupHistories[last.event.chatId]

ProjectEntry(e) == [sender |-> e.sender, body |-> e.body, timestamp |-> e.timestamp]

IsAiRelated(e) == e.aiRelated

\* C5: the history injected into a group dispatch is, under "recent", the
\* buffered entries of the chat, oldest first, with their sender label, body
\* and timestamp; under "ai-related-only", those with aiRelated true.  An
\* entry buffered by the mention gate has aiRelated false, so it is injected
\* under "recent" and absent under "ai-related-only".
C5_InjectedHistory ==
  /\ (HandledGroup /\ last.stage = "noMention") => ~last.entry.aiRelated
  /\ DispatchingGroup =>
       /\ last.hasInboundHistory
       /\ historyStrategyOf(cfg) = "recent" =>
            last.InboundHistory =
              [i \in 1..Len(BufferOfLast) |-> ProjectEntry(BufferOfLast[i])]
       /\ historyStrategyOf(cfg) = "ai-related-only" =>
            LET kept == SelectSeq(BufferOfLast, IsAiRelated)
            IN last.InboundHistory = [i \in 1..Len(kept) |-> ProjectEntry(kept[i])]
       /\ \A i \in 1..Len(BufferOfLast) :
            ~BufferOfLast[i].aiRelated =>
              LET injected ==
                    \E j \in 1..Len(last.InboundHistory) :
                      last.InboundHistory[j].timestamp = BufferOfLast[i].timestamp
              IN injected <=> historyStrategyOf(cfg) = "recent"

C5_Witness ==
  /\ DispatchingGroup
  /\ historyStrategyOf(cfg) = "ai-related-only"
  /\ Len(BufferOfLast) = 2
  /\ Len(last.InboundHistory) = 1

\* The media references of an event or history entry: urls, then paths.
RefsOf(e) == dedupeStrings(e.imageUrls) \o dedupeStrings(e.imagePaths)

RECURSIVE RefsOfAll(_)
RefsOfAll(entries) ==
  IF entries = <<>> THEN <<>> ELSE RefsOf(Head(entries)) \o RefsOfAll(Tail(entries))

SelectedOfLast ==
  IF historyStrategyOf(cfg) = "ai-related-only"
  THEN SelectSeq(BufferOfLast, IsAiRelated)
  ELSE BufferOfLast

\* C6: the merged media lists of a group dispatch hold the media of every
\* selected history entry, in buffer order, followed by the media of the
\* current event; the singular fields are those of the first merged item.
C6_MediaMergeOrder ==
  DispatchingGroup =>
    LET historyRefs == RefsOfAll(SelectedOfLast)
        currentRefs == RefsOf(last.event)
        merged == historyRefs \o currentRefs
    IN /\ last.media.MediaUrls = merged
       /\ last.media.MediaPaths = merged
       /\ Len(last.media.MediaTypes) = Len(merged)
       /\ \A i \in 1..Len(merged) : last.media.MediaTypes[i] = toImageLikeType(merged[i])
       /\ last.media.present <=> merged # <<>>
       /\ merged # <<>> =>
            /\ last.media.MediaPath = merged[1]
            /\ last.media.MediaUrl = merged[1]
            /\ last.media.MediaType = last.media.MediaTypes[1]

C6_Witness ==
  /\ DispatchingGroup
  /\ RefsOfAll(SelectedOfLast) = <<UrlOld, PathQuery>>
  /\ RefsOf(last.event) = <<UrlNew, PathNew>>
  /\ last.media.MediaTypes = <<"image/png", "image/unknown", "image/jpeg", "image/jpeg">>

LastN(seq, n) ==
  IF Len(seq) <= n THEN seq ELSE SubSeq(seq, Len(seq) - n + 1, Len(seq))

\* C7: every chat's pending-history buffer holds at most historyLimit
\* entries, and it is the most recent entries recorded since the last clear,
\* in arrival order (the oldest are the ones evicted).
C7_BufferFifo ==
  \A k \in ChatIds :
    /\ Len(groupHistories[k]) <= cfg.historyLimit
    /\ groupHistories[k] = LastN(arrivals[k], cfg.historyLimit)

C7_Witness ==
  /\ cfg.historyLimit = 2
  /\ Len(arrivals[G5]) = 3
  /\ Len(groupHistories[G5]) = 2


\* ------------------------------------------------------------------------
\* SSE client (sse-client.ts)
\* ------------------------------------------------------------------------
\* Bounds of the SSE exploration.
MaxGets == 5
MaxChunks == 2
MaxBlocks == 2
MaxAttemptsCap == 2

\* The constructor's defaults.
DefaultMaxReconnectAttempts == 10
DefaultReconnectDelay == 1000
DefaultMaxReconnectDelay == 30000

\* A URL is its origin token followed by its path tokens.
Origin == "http://h"
UrlRootBare == <<Origin>>
UrlRootSlash == <<WS, Origin, "/", WS>>
UrlExplicit == <<Origin, "/events">>
UrlOpaque == <<"not-a-url">>
SseUrls == {UrlRootBare, UrlRootSlash, UrlExplicit, UrlOpaque}

\* new URL(x) succeeds.
IsParsableUrl(u) == u # <<>> /\ Head(u) = Origin

\* new URL(trimmed).toString(): an empty path is serialised as "/".
normalizeSseBaseUrl(raw) ==
  LET trimmed == trim(raw)
  IN IF trimmed = <<>> THEN <<>>
     ELSE IF IsParsableUrl(trimmed)
          THEN (IF Len(trimmed) = 1 THEN Append(trimmed, "/") ELSE trimmed)
          ELSE trimmed

\* normalized.replace(/\/$/, "")
stripTrailingSlash(u) ==
  IF u # <<>> /\ u[Len(u)] = "/" THEN SubSeq(u, 1, Len(u) - 1) ELSE u

buildOneBot11SseUrlCandidates(url) ==
  LET normalized == normalizeSseBaseUrl(url)
  IN IF normalized = <<>> THEN <<>>
     ELSE IF IsParsableUrl(normalized) /\ Tail(normalized) = <<"/">>
          THEN LET base == stripTrailingSlash(normalized)
               IN uniqueInOrder(<<normalized, Append(base, "/_events"),
                                  Append(base, "/events"), Append(base, "/event"),
                                  Append(base, "/sse")>>)
          ELSE <<normalized>>

\* The client as the constructor leaves it; connect() has not been called.
\* Fields after "pc" record what the client has done so far.
OneBot11SSEClient(url, autoReconnect, maxReconnectAttempts) ==
  LET candidates == buildOneBot11SseUrlCandidates(url)
  IN [url |-> url,
      candidateUrls |-> candidates,
      activeUrl |-> IF candidates # <<>> THEN candidates[1] ELSE url,
      autoReconnect |-> autoReconnect,
      reconnectAttempts |-> 0,
      maxReconnectAttempts |-> maxReconnectAttempts,
      aborted |-> FALSE,
      streamAbortController |-> 0,
      attemptUrls |-> <<>>, attemptIdx |-> 0,
      pendingBlocks |-> 0, residual |-> FALSE, flushing |-> FALSE,
      pc |-> "constructed",
      inflight |-> 0, gets |-> 0, chunks |-> 0,
      cycles |-> 0, cycleActive |-> <<>>, probes |-> <<>>,
      succeededInCycle |-> FALSE, endedInCycle |-> FALSE,
      probedAfterSuccess |-> FALSE, probedAfterEnd |-> FALSE,
      capLogged |-> FALSE, getsAfterCap |-> 0,
      reconnectCalls |-> 0,
      closed |-> FALSE, closedAt |-> "none", getsAtClose |-> 0,
      attemptsAtClose |-> 0, cyclesAtClose |-> 0,
      chunkAfterAbort |-> FALSE, residualAfterAbort |-> FALSE,
      deliveredAfterClose |-> FALSE, deliveredPostAbortChunk |-> FALSE,
      arrived |-> 0, queue |-> <<>>, started |-> <<>>,
      inProgress |-> 0, overlapped |-> FALSE,
      reconnectDelay |-> DefaultReconnectDelay,
      maxReconnectDelay |-> DefaultMaxReconnectDelay,
      timer |-> 0, lastSucceeded |-> <<>>,
      bad |-> {}, logged |-> {}, thrown |-> {}]

resolveAttemptUrlsCandidatesOnly(s) == s.candidateUrls

resolveAttemptUrls(s) ==
  uniqueInOrder((IF s.activeUrl # <<>> THEN <<s.activeUrl>> ELSE <<>>) \o s.candidateUrls)

\* openSseStream up to its await: a new controller and a GET of the
\* candidate at attemptIdx.
openSseStream(s) ==
  [s EXCEPT !.pc = "fetching",
            !.streamAbortController = s.gets + 1,
            !.inflight = s.gets + 1,
            !.gets = s.gets + 1,
            !.probes = Append(s.probes, s.attemptUrls[s.attemptIdx]),
            !.probedAfterSuccess = s.probedAfterSuccess \/ s.succeededInCycle,
            !.probedAfterEnd = s.probedAfterEnd \/ s.endedInCycle,
            !.getsAfterCap = s.getsAfterCap + (IF s.capLogged THEN 1 ELSE 0)]

\* The head of connect()'s while loop, and connectAttempt() up to its first
\* await. The candidate list of a client with a URL is never empty.
connectLoop(s) ==
  IF s.aborted THEN [s EXCEPT !.pc = "returned"]
  ELSE openSseStream([s EXCEPT !.attemptUrls = resolveAttemptUrls(s),
                               !.attemptIdx = 1,
                               !.cycles = s.cycles + 1,
                               !.cycleActive = s.activeUrl,
                               !.probes = <<>>,
                               !.succeededInCycle = FALSE,
                               !.endedInCycle = FALSE])

Min(a, b) == IF a <= b THEN a ELSE b

backoffDelayUncapped(reconnectDelay, maxReconnectDelay, reconnectAttempts) ==
  reconnectDelay * 2 ^ (reconnectAttempts - 1)

\* Math.min(reconnectDelay * Math.pow(2, reconnectAttempts - 1), maxReconnectDelay)
backoffDelay(reconnectDelay, maxReconnectDelay, reconnectAttempts) ==
  Min(reconnectDelay * 2 ^ (reconnectAttempts - 1), maxReconnectDelay)

\* attemptReconnect() up to its await (timer: the delay of the armed
\* setTimeout), then back to the loop head when it returns without waiting.
attemptReconnect(s) ==
  IF s.aborted \/ ~s.autoReconnect THEN connectLoop(s)
  ELSE IF s.reconnectAttempts >= s.maxReconnectAttempts
       THEN connectLoop([s EXCEPT !.capLogged = TRUE])
       ELSE [s EXCEPT !.reconnectAttempts = s.reconnectAttempts + 1,
                      !.timer = backoffDelay(s.reconnectDelay, s.maxReconnectDelay,
                                             s.reconnectAttempts + 1),
                      !.pc = "waiting"]

\* connect() after connectAttempt() returned or its error was logged.
afterConnectAttempt(s) ==
  IF s.aborted \/ ~s.autoReconnect THEN [s EXCEPT !.pc = "returned"]
  ELSE attemptReconnect(s)

\* connect()'s catch: connectAttempt() threw.
connectAttemptThrew(s) ==
  IF s.aborted \/ ~s.autoReconnect THEN [s EXCEPT !.pc = "threw"]
  ELSE afterConnectAttempt(s)

\* connectAttempt()'s catch and finally after a failed candidate, and the
\* next turn of its for loop.
candidateFailed(s, signalAborted) ==
  LET f == [s EXCEPT !.inflight = 0,
                     !.streamAbortController =
                        IF signalAborted THEN 0 ELSE s.streamAbortController]
  IN IF f.aborted THEN connectAttemptThrew(f)
     ELSE IF f.attemptIdx >= Len(f.attemptUrls) THEN connectAttemptThrew(f)
          ELSE openSseStream([f EXCEPT !.attemptIdx = f.attemptIdx + 1])

\* processStream()'s finally after a normal end, connectAttempt()'s return.
processStreamReturned(s) ==
  afterConnectAttempt([s EXCEPT !.streamAbortController = 0, !.inflight = 0,
                                !.pendingBlocks = 0, !.queue = <<>>,
                                !.residual = FALSE,
                                !.flushing = FALSE, !.endedInCycle = TRUE])

\* processEventBlock() up to the await of onEvent.
processEventBlock(s, fromChunkAfterAbort) ==
  [s EXCEPT !.pc = "inCallback",
            !.deliveredAfterClose = s.deliveredAfterClose \/ s.closed,
            !.deliveredPostAbortChunk = s.deliveredPostAbortChunk \/ fromChunkAfterAbort]

RECURSIVE handAll(_, _)

\* this.onEvent(payload) is called for the event numbered id (events are
\* numbered in the order they arrive on the wire).
onEvent(s, id) ==
  [s EXCEPT !.started = Append(s.started, id),
            !.overlapped = s.overlapped \/ s.inProgress > 0,
            !.inProgress = s.inProgress + 1]

\* The promise of onEvent settles.
onEventSettled(s) == [s EXCEPT !.inProgress = s.inProgress - 1]

\* processEventBlock()'s catch after JSON.parse threw on block id: the
\* failure is logged and the block is dropped.
parseFailed(s, id) == [s EXCEPT !.logged = s.logged \cup {id}]

onEventThrewDroppingRest(s) ==
  [s EXCEPT !.inProgress = s.inProgress - 1,
            !.logged = s.logged \cup {s.started[Len(s.started)]},
            !.pendingBlocks = 0, !.queue = <<>>]

\* processEventBlock()'s catch after the awaited onEvent rejected: the
\* failure is logged.
onEventThrew(s) ==
  [s EXCEPT !.inProgress = s.inProgress - 1,
            !.logged = s.logged \cup {s.started[Len(s.started)]}]

\* After the for-await loop: the residual buffer is flushed if not blank
\* (bad: the blocks whose data is not JSON).
flushResidual(s) ==
  IF s.residual
  THEN IF (s.arrived + 1) \in s.bad
       THEN processStreamReturned(
              parseFailed([s EXCEPT !.residual = FALSE, !.arrived = s.arrived + 1],
                          s.arrived + 1))
       ELSE processEventBlock(
              onEvent([s EXCEPT !.flushing = TRUE, !.residual = FALSE,
                                !.arrived = s.arrived + 1], s.arrived + 1),
              s.residualAfterAbort)
  ELSE processStreamReturned(s)

handAll(s, ids) ==
  IF ids = <<>> THEN s ELSE handAll(onEvent(s, Head(ids)), Tail(ids))

drainBlocksUnawaited(s) ==
  IF s.pendingBlocks > 0
  THEN processEventBlock(handAll([s EXCEPT !.pendingBlocks = 0, !.queue = <<>>], s.queue),
                         s.chunkAfterAbort)
  ELSE [s EXCEPT !.pc = "streaming"]

RECURSIVE drainBlocks(_)

\* The while loop over complete event blocks in the buffer: the first block
\* is cut off the buffer and processed, the loop resumes when that returns
\* (at once for a block whose data does not parse).
drainBlocks(s) ==
  IF s.pendingBlocks > 0
  THEN IF Head(s.queue) \in s.bad
       THEN drainBlocks(parseFailed([s EXCEPT !.pendingBlocks = s.pendingBlocks - 1,
                                             !.queue = Tail(s.queue)], Head(s.queue)))
       ELSE processEventBlock(
              onEvent([s EXCEPT !.pendingBlocks = s.pendingBlocks - 1,
                                !.queue = Tail(s.queue)], Head(s.queue)),
              s.chunkAfterAbort)
  ELSE [s EXCEPT !.pc = "streaming"]

appendChunk(s, blocks, tail) ==
  drainBlocks([s EXCEPT !.pendingBlocks = blocks,
                        !.queue = [i \in 1..blocks |-> s.arrived + i],
                        !.arrived = s.arrived + blocks,
                        !.residual = IF blocks = 0 THEN s.residual \/ tail ELSE tail,
                        !.chunkAfterAbort = s.aborted,
                        !.residualAfterAbort =
                           IF blocks = 0 THEN s.residualAfterAbort \/ (tail /\ s.aborted)
                           ELSE tail /\ s.aborted,
                        !.chunks = s.chunks + 1])

\* The body of processStream()'s for-await loop for one chunk.
processStreamChunk(s, blocks, tail) ==
  IF s.aborted THEN flushResidual([s EXCEPT !.chunks = s.chunks + 1])
  ELSE appendChunk(s, blocks, tail)

closeWithoutAbort(s) ==
  [s EXCEPT !.aborted = TRUE,
            !.closed = TRUE, !.closedAt = s.pc, !.getsAtClose = s.gets,
            !.attemptsAtClose = s.reconnectAttempts, !.cyclesAtClose = s.cycles]

close(s) ==
  [s EXCEPT !.aborted = TRUE,
            !.inflight = IF s.streamAbortController # 0 /\ s.inflight = s.streamAbortController
                         THEN 0 ELSE s.inflight,
            !.streamAbortController = 0,
            !.closed = TRUE, !.closedAt = s.pc, !.getsAtClose = s.gets,
            !.attemptsAtClose = s.reconnectAttempts, !.cyclesAtClose = s.cycles]


FetchOutcomes == {"ok", "status", "contentType", "noBody", "reject", "timeout"}

streamOpenedKeepingActive(s) ==
  [s EXCEPT !.reconnectAttempts = 0,
            !.lastSucceeded = s.attemptUrls[s.attemptIdx],
            !.succeededInCycle = TRUE,
            !.pendingBlocks = 0, !.queue = <<>>,
            !.residual = FALSE,
            !.flushing = FALSE,
            !.bad = {}, !.logged = {}, !.thrown = {},
            !.pc = "streaming"]

\* connectAttempt() after openSseStream() returned a body: the attempt URL
\* becomes the active one, the counter is reset, processStream() starts
\* reading.  lastSucceeded: the URL of the latest successful attempt.
streamOpened(s) ==
  [s EXCEPT !.activeUrl = s.attemptUrls[s.attemptIdx],
            !.reconnectAttempts = 0,
            !.lastSucceeded = s.attemptUrls[s.attemptIdx],
            !.succeededInCycle = TRUE,
            !.pendingBlocks = 0, !.queue = <<>>,
            !.residual = FALSE,
            !.flushing = FALSE,
            !.bad = {}, !.logged = {}, !.thrown = {},
            !.pc = "streaming"]

\* connect() is called on a constructed client.
SseConnect ==
  /\ sse.pc = "constructed"
  /\ sse' = connectLoop(sse)
  /\ UNCHANGED otherThanSse

\* The awaited fetch settles: a usable response, a response openSseStream
\* rejects, a rejected fetch, or the 60 s timer aborting the request. Once
\* the request has been aborted the fetch can only reject.
SseFetchSettlesWithin(outcome, maxGets) ==
  /\ sse.pc = "fetching"
  /\ sse.aborted => outcome = "reject"
  /\ \E n \in {IF outcome = "ok" THEN streamOpened(sse)
               ELSE candidateFailed(sse, outcome = "timeout")} :
       /\ n.gets <= maxGets
       /\ sse' = n
  /\ UNCHANGED otherThanSse

SseFetchSettles(outcome) == SseFetchSettlesWithin(outcome, MaxGets)

\* The stream yields a chunk with `blocks` event terminators, followed or not
\* by unterminated text. A chunk queued before the abort may still be yielded.
\* malformed: which of the chunk's blocks (the unterminated tail is block
\* blocks + 1) carry data that is not JSON.
SseChunkOf(blocks, tail, malformed) ==
  /\ sse.pc = "streaming"
  /\ sse.chunks < MaxChunks
  /\ malformed \subseteq 1..(blocks + IF tail THEN 1 ELSE 0)
  /\ \E n \in {processStreamChunk(
                  [sse EXCEPT !.bad = IF sse.aborted THEN sse.bad
                                      ELSE (sse.bad \cap 1..sse.arrived)
                                           \cup {sse.arrived + i : i \in malformed}],
                  blocks, tail)} :
       /\ n.gets <= MaxGets
       /\ sse' = n
  /\ UNCHANGED otherThanSse

SseChunk(blocks, tail) == SseChunkOf(blocks, tail, {})

\* The stream ends normally.
SseStreamEndsWithin(maxGets) ==
  /\ sse.pc = "streaming"
  /\ \E n \in {flushResidual(sse)} :
       /\ n.gets <= maxGets
       /\ sse' = n
  /\ UNCHANGED otherThanSse

SseStreamEnds == SseStreamEndsWithin(MaxGets)

\* The stream iterator throws (connection lost, or the request was aborted).
SseStreamErrors ==
  /\ sse.pc = "streaming"
  /\ \E n \in {candidateFailed([sse EXCEPT !.streamAbortController = 0,
                                           !.pendingBlocks = 0, !.queue = <<>>,
                                           !.residual = FALSE], FALSE)} :
       /\ n.gets <= MaxGets
       /\ sse' = n
  /\ UNCHANGED otherThanSse

\* onEvent returns to processEventBlock.
SseCallbackReturns ==
  /\ sse.pc = "inCallback"
  /\ \E n \in {IF sse.flushing THEN processStreamReturned(onEventSettled(sse))
               ELSE drainBlocks(onEventSettled(sse))} :
       /\ n.gets <= MaxGets
       /\ sse' = n
  /\ UNCHANGED otherThanSse

\* onEvent rejects: processEventBlock logs the failure and returns.
SseCallbackThrows ==
  /\ sse.pc = "inCallback"
  /\ \E n \in {LET t == onEventThrew([sse EXCEPT !.thrown =
                                         sse.thrown \cup {sse.started[Len(sse.started)]}])
               IN IF t.flushing THEN processStreamReturned(t) ELSE drainBlocks(t)} :
       /\ n.gets <= MaxGets
       /\ sse' = n
  /\ UNCHANGED otherThanSse

\* The reconnect delay elapses: onReconnect is called, then the loop head.
SseTimerFiresWithin(maxGets) ==
  /\ sse.pc = "waiting"
  /\ \E n \in {connectLoop([sse EXCEPT !.reconnectCalls = sse.reconnectCalls + 1,
                                        !.timer = 0])} :
       /\ n.gets <= maxGets
       /\ sse' = n
  /\ UNCHANGED otherThanSse

SseTimerFires == SseTimerFiresWithin(MaxGets)

\* close() is called, at any point of the client's life.
SseClose ==
  /\ sse.pc # "none"
  /\ ~sse.closed
  /\ sse' = close(sse)
  /\ UNCHANGED otherThanSse

InitSse ==
  /\ cfg = BaseConfig
  /\ groupHistories = [k \in ChatIds |-> <<>>]
  /\ pairingRequests = {}
  /\ storeAllowFrom = <<>>
  /\ pc = "idle"
  /\ last = NoOutcome
  /\ arrivals = [k \in ChatIds |-> <<>>]
  /\ nEvents = 0
  /\ \E url \in SseUrls, autoReconnect \in BOOLEAN, maxReconnectAttempts \in 1..MaxAttemptsCap :
       sse = OneBot11SSEClient(url, autoReconnect, maxReconnectAttempts)
  /\ out = NoOutbound
  /\ call = NoCall
  /\ mon = NoMonitor

NextSse ==
  \/ SseConnect
  \/ \E outcome \in FetchOutcomes : SseFetchSettles(outcome)
  \/ \E blocks \in 0..MaxBlocks, tail \in BOOLEAN : SseChunk(blocks, tail)
  \/ SseStreamEnds
  \/ SseStreamErrors
  \/ SseCallbackReturns
  \/ SseTimerFires
  \/ SseClose

SpecSse == InitSse /\ [][NextSse]_vars


\* ------------------------------------------------------------------------
\* Properties of the SSE client
\* ------------------------------------------------------------------------
\* C8: with autoReconnect enabled, once the reconnect-attempt counter has
\* reached maxReconnectAttempts and the cap error is logged, the client
\* halts: no further connection attempt is made.
C8_CapHalts == sse.capLogged => sse.getsAfterCap = 0

\* C9: after close() no new request is issued and no new reconnect cycle is
\* started, the in-flight request is cancelled, and no event of a chunk read
\* after the abort is delivered.
C9_CloseStops ==
  sse.closed =>
    /\ sse.aborted
    /\ sse.gets = sse.getsAtClose
    /\ sse.cycles = sse.cyclesAtClose
    /\ sse.reconnectAttempts = sse.attemptsAtClose
    /\ sse.inflight = 0
    /\ sse.streamAbortController = 0
    /\ ~sse.deliveredPostAbortChunk

C9_Witness ==
  /\ sse.closed
  /\ sse.closedAt = "streaming"
  /\ sse.deliveredAfterClose
  /\ sse.pc = "returned"

IsPrefix(s, t) == Len(s) <= Len(t) /\ s = SubSeq(t, 1, Len(s))

RootCandidates ==
  <<<<Origin, "/">>, <<Origin, "/_events">>, <<Origin, "/events">>,
    <<Origin, "/event">>, <<Origin, "/sse">>>>

ExpectedCandidates ==
  IF sse.url \in {UrlRootBare, UrlRootSlash} THEN RootCandidates ELSE <<sse.url>>

\* C10 as stated: every cycle probes the candidates in the fixed order
\* original, /_events, /events, /event, /sse (the URL alone when its path is
\* not the root), each at most once, and stops at the first success.
C10_AsStated ==
  /\ sse.candidateUrls = ExpectedCandidates
  /\ IsPrefix(sse.probes, ExpectedCandidates)
  /\ ~sse.probedAfterSuccess

NotCycleActive(u) == u # sse.cycleActive

ActiveFirst == <<sse.cycleActive>> \o SelectSeq(ExpectedCandidates, NotCycleActive)

\* C10: the candidate list is original, /_events, /events, /event, /sse for
\* a root URL and the URL alone otherwise; a cycle probes the active URL
\* first (the original URL until a candidate has succeeded, then the last
\* one that succeeded), then the other candidates in list order, each at
\* most once, and probes nothing more once a stream has ended normally.
C10_ProbeOrder ==
  /\ sse.candidateUrls = ExpectedCandidates
  /\ sse.cycles = 1 => sse.cycleActive = ExpectedCandidates[1]
  /\ sse.cycles >= 1 =>
       /\ \E i \in 1..Len(ExpectedCandidates) : ExpectedCandidates[i] = sse.cycleActive
       /\ IsPrefix(sse.probes, ActiveFirst)
  /\ ~sse.probedAfterEnd

C10_Witness ==
  /\ sse.cycleActive = <<Origin, "/_events">>
  /\ sse.probes = <<<<Origin, "/_events">>, <<Origin, "/">>, <<Origin, "/events">>>>


\* C11: the events of a connection are handed to onEvent one at a time in
\* arrival order: a callback starts only when every earlier one has
\* completed, and no two are in progress at once.
C11_CallbacksSequential ==
  /\ sse.inProgress <= 1
  /\ ~sse.overlapped
  /\ sse.started = [i \in 1..Len(sse.started) |-> i]
  /\ sse.inProgress = 1 <=> sse.pc = "inCallback"

C11_Witness ==
  /\ Len(sse.started) = 3
  /\ sse.inProgress = 1
  /\ sse.queue # <<>>


\* ------------------------------------------------------------------------
\* Target strings (normalize.ts)
\* ------------------------------------------------------------------------
\* Tokens consisting of ASCII digits only.
DigitToks == {"0", "7", "42"}

\* /^\d+$/
IsDigits(s) == s # <<>> /\ \A i \in 1..Len(s) : s[i] \in DigitToks

ChatTypeToks == {"group:", "private:"}

normalizeId(value) == stripChannelPrefix(trim(value))

\* undefined is <<>>.
normalizeOneBot11MessagingTarget(raw) ==
  LET trimmed == trim(raw)
  IN IF trimmed = <<>> THEN <<>> ELSE normalizeId(trimmed)

TargetError == [ok |-> FALSE]

parseOneBot11TargetCaseSensitive(raw) ==
  LET normalized == normalizeOneBot11MessagingTarget(raw)
  IN IF normalized = <<>> THEN TargetError
     ELSE IF Head(normalized) \in ChatTypeToks /\ IsDigits(Tail(normalized))
          THEN [ok |-> TRUE, chatType |-> Head(normalized),
                id |-> Tail(normalized), explicit |-> TRUE]
          ELSE IF ~IsDigits(normalized) THEN TargetError
               ELSE [ok |-> TRUE, chatType |-> "private:", id |-> normalized,
                     explicit |-> FALSE]

\* chatType keeps its colon ("group:" stands for "group"); explicit FALSE is
\* the result without the explicit flag; a throw is TargetError.
parseOneBot11Target(raw) ==
  LET normalized == normalizeOneBot11MessagingTarget(raw)
  IN IF normalized = <<>> THEN TargetError
     ELSE IF toLowerCaseTok(Head(normalized)) \in ChatTypeToks /\ IsDigits(Tail(normalized))
          THEN [ok |-> TRUE, chatType |-> toLowerCaseTok(Head(normalized)),
                id |-> Tail(normalized), explicit |-> TRUE]
          ELSE IF ~IsDigits(normalized) THEN TargetError
               ELSE [ok |-> TRUE, chatType |-> "private:", id |-> normalized,
                     explicit |-> FALSE]


\* ------------------------------------------------------------------------
\* Outbound adapter: sendMedia, file upload, text send in chunks
\* ------------------------------------------------------------------------
MaxTextChunkLimit == 2

\* resolveChunkLimit's fallback.
TextChunkLimitDefault == 2000

CaptionNone == <<>>
CaptionBlank == <<WS>>
CaptionShort == <<"a">>
CaptionLong == <<"a", WS, "b">>
Captions == {CaptionNone, CaptionBlank, CaptionShort, CaptionLong}

MediaFile == <<"file:///m.png">>
MediaUrlInputs == {<<>>, MediaFile}

TargetGroup42 == <<"group:", "42">>
TargetBare7 == <<"OB11:", "7">>
TargetFoo == <<"foo">>
TargetInputs == {TargetGroup42, TargetBare7, TargetFoo}

\* A message id: one reported by the protocol (the n-th send call of the
\* run), the text send's synthetic "<chatType>:<id>:<epochMillis>", the
\* adapter's synthetic "file:<epochMillis>", or none ("").
NoId == [kind |-> "none", n |-> 0, chatType |-> "", id |-> <<>>]
ReportedId(n) == [kind |-> "reported", n |-> n, chatType |-> "", id |-> <<>>]
SyntheticId(target) == [kind |-> "synthetic", n |-> 0, chatType |-> target.chatType, id |-> target.id]
FileId == [kind |-> "file", n |-> 0, chatType |-> "", id |-> <<>>]

attachmentFallbackTextUrlOnly(text, mediaUrl) == <<"Attachment: ">> \o mediaUrl

attachmentFallbackText(text, mediaUrl) ==
  IF trim(text) # <<>>
  THEN text \o <<"\n\n", "Attachment: ">> \o mediaUrl
  ELSE <<"Attachment: ">> \o mediaUrl

resolveChunkLimit(o) ==
  IF o.textChunkLimit > 0 THEN o.textChunkLimit ELSE TextChunkLimitDefault

\* core.channel.text.chunkMarkdownText: consecutive pieces of the text, in
\* order, none longer than the limit (a token counts for one character).
RECURSIVE chunkMarkdownText(_, _)
chunkMarkdownText(text, limit) ==
  IF text = <<>> THEN <<>>
  ELSE IF Len(text) <= limit THEN <<text>>
       ELSE <<SubSeq(text, 1, limit)>> \o
            chunkMarkdownText(SubSeq(text, limit + 1, Len(text)), limit)

\* The adapter call about to be made.
OutboundCall(textChunkLimit, target, text, mediaUrl) ==
  [textChunkLimit |-> textChunkLimit, target |-> target, text |-> text,
   mediaUrl |-> mediaUrl,
   pc |-> "called", kind |-> "none",
   chunks |-> <<>>, index |-> 0, lastMessageId |-> NoId,
   upload |-> "none", calls |-> 0, sends |-> <<>>,
   sentBeforeUploadSettled |-> FALSE, outstanding |-> 0,
   sharedMediaDirs |-> TRUE, uploadError |-> "none",
   result |-> [status |-> "pending", messageId |-> NoId, error |-> "none"]]

NewSend(kind, text) ==
  [kind |-> kind, text |-> text, issued |-> <<>>, reported |-> <<>>,
   outcome |-> "pending", messageId |-> NoId]

\* The text send returns: the last reported id, or the synthetic one.
textSendReturned(o) ==
  LET messageId ==
        IF o.lastMessageId = NoId THEN SyntheticId(parseOneBot11Target(o.target))
        ELSE o.lastMessageId
  IN [o EXCEPT !.pc = "done",
               !.sends[Len(o.sends)].outcome = "ok",
               !.sends[Len(o.sends)].messageId = messageId,
               !.result = [status |-> "ok", messageId |-> messageId, error |-> "none"]]

\* One turn of the for loop over the chunks, up to the awaited protocol call.
sendChunk(o) ==
  IF o.index > Len(o.chunks) THEN textSendReturned(o)
  ELSE [o EXCEPT !.pc = "sending",
                 !.calls = o.calls + 1,
                 !.outstanding = o.outstanding + 1,
                 !.sends[Len(o.sends)].issued = Append(@, o.chunks[o.index])]

RECURSIVE sendMessageOneBot11(_, _, _)
RECURSIVE textSendThrew(_)

\* A text send throws: the caption send is inside sendMediaWithFallback's
\* try, every other send rejects the adapter call.
textSendThrew(o) ==
  LET f == [o EXCEPT !.sends[Len(o.sends)].outcome = "failed"]
  IN IF f.kind = "caption"
     THEN sendMessageOneBot11(f, "fallback", attachmentFallbackText(f.text, f.mediaUrl))
     ELSE [f EXCEPT !.pc = "done",
                    !.result = [status |-> "failed", messageId |-> NoId,
                                error |-> "textSend"]]

\* sendMessageOneBot11 up to its first awaited protocol call.
sendMessageOneBot11(o, kind, text) ==
  LET started == [o EXCEPT !.kind = kind,
                           !.sends = Append(o.sends, NewSend(kind, text)),
                           !.sentBeforeUploadSettled = @ \/ o.upload = "pending"]
  IN IF ~parseOneBot11Target(o.target).ok \/ trim(text) = <<>>
     THEN textSendThrew(started)
     ELSE sendChunk([started EXCEPT !.chunks = chunkMarkdownText(text, resolveChunkLimit(o)),
                                    !.index = 1, !.lastMessageId = NoId])

ChunkOutcomes == {"okId", "okNoId", "http", "failed"}

\* What the protocol call of the current chunk came back with.
Response(o, outcome) ==
  [outcome |-> outcome,
   id |-> IF outcome = "okId" THEN ReportedId(o.calls) ELSE NoId]

lastMessageIdOfFinalChunkOnly(o, outcome) ==
  IF outcome = "okId" THEN ReportedId(o.calls) ELSE NoId

\* lastMessageId after a validated response.
lastMessageIdAfter(o, outcome) ==
  IF outcome = "okId" THEN ReportedId(o.calls) ELSE o.lastMessageId

\* The awaited protocol call of the current chunk settles and is validated.
chunkSettled(o, outcome) ==
  LET s == [o EXCEPT !.outstanding = o.outstanding - 1,
                     !.sends[Len(o.sends)].reported = Append(@, Response(o, outcome))]
  IN IF outcome \in {"http", "failed"} THEN textSendThrew(s)
     ELSE sendChunk([s EXCEPT !.lastMessageId = lastMessageIdAfter(o, outcome),
                              !.index = o.index + 1])

UploadOutcomes == {"ok", "loadFailed", "actionFailed"}

\* sendFileOneBot11 settles, sendMediaWithFallback resumes.
uploadSettled(o, outcome) ==
  IF outcome = "ok"
  THEN LET u == [o EXCEPT !.upload = "ok"]
       IN IF trim(u.text) # <<>>
          THEN sendMessageOneBot11(u, "caption", u.text)
          ELSE [u EXCEPT !.pc = "done",
                         !.result = [status |-> "ok", messageId |-> FileId,
                                     error |-> "none"]]
  ELSE LET u == [o EXCEPT !.upload = "failed", !.uploadError = outcome]
       IN sendMessageOneBot11(u, "fallback", attachmentFallbackText(u.text, u.mediaUrl))

\* The adapter's sendMedia up to its first await. sendFileOneBot11 parses
\* the target and then resolves the shared media directories (throwing
\* OneBot11FileSyncConfigError when one is missing) before it loads the media.
sendMedia(o) ==
  IF o.mediaUrl = <<>> THEN sendMessageOneBot11(o, "text", o.text)
  ELSE IF ~parseOneBot11Target(o.target).ok
       THEN uploadSettled([o EXCEPT !.upload = "pending"], "targetInvalid")
       ELSE IF ~o.sharedMediaDirs
            THEN uploadSettled([o EXCEPT !.upload = "pending"], "syncConfig")
            ELSE [o EXCEPT !.pc = "uploading", !.upload = "pending"]

OutSendMedia ==
  /\ out.pc = "called"
  /\ out' = sendMedia(out)
  /\ UNCHANGED otherThanOutbound

OutUploadSettles(outcome) ==
  /\ out.pc = "uploading"
  /\ out' = uploadSettled(out, outcome)
  /\ UNCHANGED otherThanOutbound

OutChunkSettles(outcome) ==
  /\ out.pc = "sending"
  /\ out' = chunkSettled(out, outcome)
  /\ UNCHANGED otherThanOutbound

InitOut ==
  /\ cfg = BaseConfig
  /\ groupHistories = [k \in ChatIds |-> <<>>]
  /\ pairingRequests = {}
  /\ storeAllowFrom = <<>>
  /\ pc = "idle"
  /\ last = NoOutcome
  /\ arrivals = [k \in ChatIds |-> <<>>]
  /\ nEvents = 0
  /\ sse = NoSseClient
  /\ \E textChunkLimit \in 0..MaxTextChunkLimit, target \in TargetInputs,
        text \in Captions, mediaUrl \in MediaUrlInputs, sharedMediaDirs \in BOOLEAN :
       out = [OutboundCall(textChunkLimit, target, text, mediaUrl) EXCEPT
                !.sharedMediaDirs = sharedMediaDirs]
  /\ call = NoCall
  /\ mon = NoMonitor

NextOut ==
  \/ OutSendMedia
  \/ \E outcome \in UploadOutcomes : OutUploadSettles(outcome)
  \/ \E outcome \in ChunkOutcomes : OutChunkSettles(outcome)

SpecOut == InitOut /\ [][NextOut]_vars

\* ------------------------------------------------------------------------
\* Properties of the outbound adapter
\* ------------------------------------------------------------------------
RECURSIVE Flatten(_)
Flatten(seqs) == IF seqs = <<>> THEN <<>> ELSE Head(seqs) \o Flatten(Tail(seqs))

CaptionIsBlank == \A i \in 1..Len(out.text) : out.text[i] = WS

ExpectedFallbackText ==
  IF CaptionIsBlank THEN <<"Attachment: ">> \o out.mediaUrl
  ELSE out.text \o <<"\n\n", "Attachment: ">> \o out.mediaUrl

C13_UploadThenOneCaption ==
  /\ ~out.sentBeforeUploadSettled
  /\ (out.upload = "ok" /\ ~CaptionIsBlank) =>
       /\ Len(out.sends) = 1
       /\ out.sends[1].kind = "caption"
       /\ out.sends[1].text = out.text
       /\ out.result.status = "ok" => out.result.messageId = out.sends[1].messageId

IsOkResponse(r) == r.outcome \in {"okId", "okNoId"}

\* The id of the last response that carried one, NoId when none did.
RECURSIVE LastReported(_)
LastReported(responses) ==
  IF responses = <<>> THEN NoId
  ELSE IF responses[Len(responses)].id # NoId THEN responses[Len(responses)].id
       ELSE LastReported(SubSeq(responses, 1, Len(responses) - 1))

ChunksOf(send) == chunkMarkdownText(send.text, resolveChunkLimit(out))

\* The chunks of a text send go out one at a time in text order, each
\* response validated before the next call; nothing follows a failure.
SendIsSequential(send) ==
  /\ IsPrefix(send.issued, ChunksOf(send))
  /\ Len(send.reported) <= Len(send.issued)
  /\ Len(send.issued) <= Len(send.reported) + 1
  /\ \A j \in 1..(Len(send.reported) - 1) : IsOkResponse(send.reported[j])
  /\ (send.reported # <<>> /\ ~IsOkResponse(send.reported[Len(send.reported)])) =>
       /\ send.outcome = "failed"
       /\ Len(send.issued) = Len(send.reported)
  /\ send.outcome = "ok" =>
       /\ send.issued = ChunksOf(send)
       /\ Len(send.reported) = Len(send.issued)
       /\ IsOkResponse(send.reported[Len(send.reported)])

SentSequentially ==
  /\ out.outstanding <= 1
  /\ \A i \in 1..Len(out.sends) : SendIsSequential(out.sends[i])

\* C14 as stated: the chunks are sent sequentially in order, a failure stops
\* the send, and the returned id is the one reported for the final chunk, or
\* the synthetic one if the protocol never returned an id.
C14_AsStated ==
  /\ SentSequentially
  /\ \A i \in 1..Len(out.sends) :
       LET send == out.sends[i]
       IN send.outcome = "ok" =>
            \/ /\ send.reported[Len(send.reported)].id # NoId
               /\ send.messageId = send.reported[Len(send.reported)].id
            \/ /\ LastReported(send.reported) = NoId
               /\ send.messageId = SyntheticId(parseOneBot11Target(out.target))

\* C14: the chunks are sent sequentially in order, a failure stops the send,
\* and the returned id is the last one any chunk of the send reported (the
\* final chunk's when it reports one), or the synthetic one if none did.
C14_ChunksSequential ==
  /\ SentSequentially
  /\ \A i \in 1..Len(out.sends) :
       LET send == out.sends[i]
       IN send.outcome = "ok" =>
            send.messageId =
              IF LastReported(send.reported) # NoId THEN LastReported(send.reported)
              ELSE SyntheticId(parseOneBot11Target(out.target))

C14_Witness ==
  /\ out.pc = "done"
  /\ out.result.status = "ok"
  /\ Len(out.sends) = 1
  /\ Len(out.sends[1].issued) = 3
  /\ out.sends[1].reported[2].id # NoId
  /\ out.sends[1].reported[3].id = NoId
  /\ out.result.messageId = out.sends[1].reported[2].id


\* ------------------------------------------------------------------------
\* Access token resolution (token.ts)
\* ------------------------------------------------------------------------
\* The inbound handler has not run and nothing else has been constructed.
NothingElseRunning ==
  /\ cfg = BaseConfig
  /\ groupHistories = [k \in ChatIds |-> <<>>]
  /\ pairingRequests = {}
  /\ storeAllowFrom = <<>>
  /\ pc = "idle"
  /\ last = NoOutcome
  /\ arrivals = [k \in ChatIds |-> <<>>]
  /\ nEvents = 0
  /\ sse = NoSseClient
  /\ out = NoOutbound
  /\ mon = NoMonitor

DEFAULT_ACCOUNT_ID == "default"

NullAccountId == "null"

AccountIds == {NullAccountId, DEFAULT_ACCOUNT_ID, "work"}

BaseTokenFile == <<"/base.tok">>
AccountTokenFile == <<"/work.tok">>
TokenFiles == {BaseTokenFile, AccountTokenFile}

AccessTokens(tok) == {Undefined, <<WS>>, <<WS, tok, WS>>}
AccessTokenFiles(path) == {Undefined, <<WS>>, <<WS>> \o path}

\* readFileSync throws.
Unreadable == <<"ENOENT">>

FileContents == {Unreadable, <<WS>>, <<"tok-file", WS>>}

EnvValues == {Undefined, <<WS>>, <<WS, "tok-env">>}

\* config.accounts[id] is absent.
NoAccountConfig == [present |-> FALSE, accessToken |-> Undefined, accessTokenFile |-> Undefined]

AccountConfigs ==
  {NoAccountConfig} \cup
  [present : {TRUE}, accessToken : AccessTokens("tok-work"),
   accessTokenFile : AccessTokenFiles(AccountTokenFile)]

\* The channel configuration: its own token properties and accounts["work"].
\* An undefined configuration reads like the one with every property absent.
TokenConfigs ==
  [accessToken : AccessTokens("tok-base"),
   accessTokenFile : AccessTokenFiles(BaseTokenFile),
   work : AccountConfigs]

TokenResolution(token, source) == [token |-> token, source |-> source]

NoToken == TokenResolution(<<>>, "none")

\* try { readFileSync(tokenFile).trim() } catch {}: the token in the file,
\* <<>> when there is no file property, the read throws or the file is blank.
readTokenFile(accessTokenFile, files) ==
  LET tokenFile == trim(accessTokenFile)
  IN IF tokenFile = <<>> THEN <<>>
     ELSE IF tokenFile \notin DOMAIN files THEN <<>>
     ELSE IF files[tokenFile] = Unreadable THEN <<>>
     ELSE trim(files[tokenFile])

\* The account's own accessToken, then its accessTokenFile.
fromConfig(c, files, otherwise) ==
  IF trim(c.accessToken) # <<>> THEN TokenResolution(trim(c.accessToken), "config")
  ELSE IF readTokenFile(c.accessTokenFile, files) # <<>>
       THEN TokenResolution(readTokenFile(c.accessTokenFile, files), "configFile")
       ELSE otherwise

fromEnv(env) ==
  IF trim(env) # <<>> THEN TokenResolution(trim(env), "env") ELSE NoToken

resolveOneBot11TokenEnvFirst(config, accountId, files, env) ==
  IF accountId \in {NullAccountId, DEFAULT_ACCOUNT_ID}
  THEN IF trim(config.accessToken) # <<>>
       THEN TokenResolution(trim(config.accessToken), "config")
       ELSE IF trim(env) # <<>> THEN fromEnv(env)
            ELSE fromConfig(config, files, NoToken)
  ELSE IF config.work.present /\ accountId = "work"
       THEN fromConfig(config.work, files, NoToken)
       ELSE NoToken

resolveOneBot11TokenEnvForAll(config, accountId, files, env) ==
  IF accountId \in {NullAccountId, DEFAULT_ACCOUNT_ID}
  THEN fromConfig(config, files, fromEnv(env))
  ELSE IF config.work.present /\ accountId = "work"
       THEN fromConfig(config.work, files, fromEnv(env))
       ELSE fromEnv(env)

resolveOneBot11TokenBaseForAll(config, accountId, files, env) ==
  IF accountId \in {NullAccountId, DEFAULT_ACCOUNT_ID}
  THEN fromConfig(config, files, fromEnv(env))
  ELSE IF config.work.present /\ accountId = "work"
       THEN fromConfig(config.work, files, fromConfig(config, files, NoToken))
       ELSE fromConfig(config, files, NoToken)

resolveOneBot11Token(config, accountId, files, env) ==
  LET resolvedAccountId ==
        IF accountId = NullAccountId THEN DEFAULT_ACCOUNT_ID ELSE accountId
      isDefaultAccount == resolvedAccountId = DEFAULT_ACCOUNT_ID
      accountConfig ==
        IF resolvedAccountId # DEFAULT_ACCOUNT_ID /\ resolvedAccountId = "work"
        THEN config.work ELSE NoAccountConfig
      default == IF isDefaultAccount THEN fromConfig(config, files, fromEnv(env))
                 ELSE NoToken
  IN IF accountConfig.present THEN fromConfig(accountConfig, files, default)
     ELSE default

NotResolved == [token |-> <<>>, source |-> "pending"]

\* Two resolutions of the same configuration, account and files, each in a
\* process with its own ONEBOT11_ACCESS_TOKEN.
TokenCall(config, accountId, files, env1, env2) ==
  [pc |-> "token", config |-> config, accountId |-> accountId, files |-> files,
   env |-> <<env1, env2>>, result |-> <<NotResolved, NotResolved>>]

TokenResolve(run) ==
  /\ call.pc = "token"
  /\ call.result[run] = NotResolved
  /\ call' = [call EXCEPT !.result[run] =
                resolveOneBot11Token(call.config, call.accountId, call.files, call.env[run])]
  /\ UNCHANGED otherThanCall

InitToken ==
  /\ NothingElseRunning
  /\ \E config \in TokenConfigs, accountId \in AccountIds,
        files \in [TokenFiles -> FileContents], env1 \in EnvValues, env2 \in EnvValues :
       call = TokenCall(config, accountId, files, env1, env2)

NextToken == \E run \in 1..2 : TokenResolve(run)

SpecToken == InitToken /\ [][NextToken]_vars

IsDefaultAccountCall == call.accountId \in {NullAccountId, DEFAULT_ACCOUNT_ID}

Resolved(run) == call.pc = "token" /\ call.result[run] # NotResolved

\* What the file named by the base accessTokenFile holds, trimmed; <<>> when
\* no file is named or it cannot be read.
BaseFileToken ==
  IF trim(call.config.accessTokenFile) = BaseTokenFile
     /\ call.files[BaseTokenFile] # Unreadable
  THEN trim(call.files[BaseTokenFile]) ELSE <<>>

\* C15: for the default account the token is the base accessToken ("config"),
\* else the content of the base accessTokenFile ("configFile"), else the
\* environment variable ("env"), else the empty token with source "none";
\* an unreadable or empty file falls through to the next source.
C15_DefaultOrder ==
  \A run \in 1..2 :
    (Resolved(run) /\ IsDefaultAccountCall) =>
      call.result[run] =
        IF trim(call.config.accessToken) # <<>>
        THEN [token |-> trim(call.config.accessToken), source |-> "config"]
        ELSE IF BaseFileToken # <<>>
             THEN [token |-> BaseFileToken, source |-> "configFile"]
             ELSE IF trim(call.env[run]) # <<>>
                  THEN [token |-> trim(call.env[run]), source |-> "env"]
                  ELSE [token |-> <<>>, source |-> "none"]

C15_Witness ==
  /\ Resolved(1) /\ Resolved(2)
  /\ call.accountId = NullAccountId
  /\ trim(call.config.accessToken) = <<>>
  /\ trim(call.config.accessTokenFile) = BaseTokenFile
  /\ call.files[BaseTokenFile] = Unreadable
  /\ call.result[1].source = "env"
  /\ call.result[2].source = "none"

\* C16: for a non-default account the resolved token does not depend on the
\* environment variable, and its source is never "env", also when the
\* account's token file cannot be read.
C16_EnvIndependent ==
  (call.pc = "token" /\ ~IsDefaultAccountCall) =>
    /\ \A run \in 1..2 : call.result[run].source # "env"
    /\ (Resolved(1) /\ Resolved(2)) => call.result[1] = call.result[2]

C16_Witness ==
  /\ Resolved(1) /\ Resolved(2)
  /\ call.accountId = "work"
  /\ call.config.work.present
  /\ trim(call.config.work.accessToken) = <<>>
  /\ trim(call.config.work.accessTokenFile) = AccountTokenFile
  /\ call.files[AccountTokenFile] = Unreadable
  /\ trim(call.env[1]) # <<>>
  /\ trim(call.env[2]) = <<>>
  /\ call.result[1].source = "none"


\* ------------------------------------------------------------------------
\* Target strings (normalize.ts): parseOneBot11Target applied to an input
\* ------------------------------------------------------------------------
MaxTargetLen == 3

TargetToks ==
  {WS, "onebot11:", "OB11:", "group:", "GROUP:", "private:", "0", "7", "42", "foo"}

RECURSIVE SeqsUpTo(_, _)
SeqsUpTo(toks, n) ==
  IF n = 0 THEN {<<>>}
  ELSE LET shorter == SeqsUpTo(toks, n - 1)
       IN shorter \cup {Append(q, t) : q \in shorter, t \in toks}

TargetStrings == SeqsUpTo(TargetToks, MaxTargetLen)

NotApplied == [ok |-> FALSE, pending |-> TRUE]

TargetCall(raw) == [pc |-> "target", raw |-> raw, result |-> NotApplied]

TargetParse ==
  /\ call.pc = "target"
  /\ call.result = NotApplied
  /\ call' = [call EXCEPT !.result = parseOneBot11Target(call.raw)]
  /\ UNCHANGED otherThanCall

InitTarget ==
  /\ NothingElseRunning
  /\ \E raw \in TargetStrings : call = TargetCall(raw)

NextTarget == TargetParse

SpecTarget == InitTarget /\ [][NextTarget]_vars

\* <digits>
IsBareTarget(y) == IsDigits(y)

\* private:<digits> or group:<digits>, the keyword in any letter case.
IsExplicitTarget(y) ==
  y # <<>> /\ toLowerCaseTok(Head(y)) \in ChatTypeToks /\ IsDigits(Tail(y))

ExpectedTarget(y) ==
  IF IsExplicitTarget(y)
  THEN [ok |-> TRUE, chatType |-> toLowerCaseTok(Head(y)), id |-> Tail(y), explicit |-> TRUE]
  ELSE [ok |-> TRUE, chatType |-> "private:", id |-> y, explicit |-> FALSE]

TargetParsed == call.pc = "target" /\ call.result # NotApplied

\* C17: "group:"+digits parses to the group target with the explicit flag,
\* bare digits to the private target without it, a leading "onebot11:" or
\* "ob11:" prefix in any letter case leaves the result unchanged, and an
\* input that after normalization is none of <digits>, private:<digits>,
\* group:<digits> fails.
C17_TargetGrammar ==
  TargetParsed =>
    LET raw == call.raw
        normalized == stripChannelPrefix(trim(raw))
    IN /\ (IsExplicitTarget(raw) \/ IsBareTarget(raw)) => call.result = ExpectedTarget(raw)
       /\ (raw # <<>> /\ Head(raw) \in Prefixes
             /\ (IsExplicitTarget(Tail(raw)) \/ IsBareTarget(Tail(raw)))) =>
            call.result = ExpectedTarget(Tail(raw))
       /\ ~(IsExplicitTarget(normalized) \/ IsBareTarget(normalized)) =>
            call.result = TargetError

C17_Witness ==
  /\ TargetParsed
  /\ call.raw = <<"OB11:", "GROUP:", "42">>
  /\ call.result = [ok |-> TRUE, chatType |-> "group:", id |-> <<"42">>, explicit |-> TRUE]


\* ------------------------------------------------------------------------
\* Inbound event normalization (normalize.ts): parseOneBot11InboundEvent
\* ------------------------------------------------------------------------
MaxSegments == 2

\* A JSON value of a wire event: null or absent, a number (v holds its
\* decimal digits) or a string.
NullV == [t |-> "null", v |-> <<>>]
Num(v) == [t |-> "number", v |-> v]
Str(v) == [t |-> "string", v |-> v]

\* String(value)
String(value) == value.v

\* undefined is <<>>.
asTrimmedString(value) ==
  IF value.t = "string" THEN trim(value.v)
  ELSE IF value.t = "number" THEN value.v
  ELSE <<>>

SelfDigits == <<"99">>
OtherDigits == <<"12">>

ImageUrl == <<"https://x/", "a", ".png">>
ImageFileUrl == <<"HTTPS://x/", "b", ".png">>
ImageFilePath == <<"/tmp/", "c", ".png">>

\* A message segment {type, data}; type "null" is a segment that is not an
\* object. The data properties a segment lacks are NullV.
Segment(type, text, qq, url, file) ==
  [type |-> type, text |-> text, qq |-> qq, url |-> url, file |-> file]

SegText == Segment("text", Str(<<"hi">>), NullV, NullV, NullV)
SegAtSelf == Segment("at", NullV, Str(SelfDigits), NullV, NullV)
SegAtSelfNumber == Segment("at", NullV, Num(SelfDigits), NullV, NullV)
SegAtSelfPadded == Segment("at", NullV, Str(<<WS>> \o SelfDigits), NullV, NullV)
SegAtOther == Segment("at", NullV, Str(OtherDigits), NullV, NullV)
SegImageUrl == Segment("image", NullV, NullV, Str(ImageUrl), NullV)
SegImageFile == Segment("image", NullV, NullV, NullV, Str(ImageFilePath))
SegImageBare == Segment("image", NullV, NullV, NullV, NullV)

Segments ==
  {SegText, SegAtSelf, SegAtSelfNumber, SegAtSelfPadded, SegAtOther,
   SegImageUrl, SegImageFile, SegImageBare}

\* event.message: absent, a string, or an array of segments.
NoMessage == [t |-> "absent", v |-> <<>>]
MessageString(v) == [t |-> "string", v |-> v]
MessageArray(v) == [t |-> "array", v |-> v]

Messages ==
  {NoMessage, MessageString(<<"hi", WS>>)}
  \cup {MessageArray(v) : v \in SeqsUpTo(Segments, MaxSegments)}

\* CQ codes in raw_message are cut into an opener, the value and "]".
CqAt == "[CQ:at,qq="
CqImageFile == "[CQ:image,file="
CqClose == "]"
CqOpeners == {CqAt, CqImageFile}

RawMessages ==
  {NullV, Str(<<WS>>), Str(<<"hi">>),
   Str(<<CqAt>> \o SelfDigits \o <<CqClose, WS, "hi">>),
   Str(<<CqAt>> \o OtherDigits \o <<CqClose>>),
   Str(<<CqAt, WS>> \o SelfDigits \o <<CqClose>>),
   Str(<<CqImageFile>> \o ImageFileUrl \o <<CqClose>>)}

SelfIds == {NullV, Num(SelfDigits), Str(SelfDigits), Str(<<WS>> \o SelfDigits), Str(<<>>)}

UserIds == {NullV, Num(<<"7">>), Str(<<WS>>)}

GroupIds == {NullV, Num(<<"5">>)}

\* A payload that is not an object (null, a number, a string).
NonObjectPayload == [kind |-> "primitive"]

WireEvent(post_type, sub_type, message_type, user_id, group_id, raw_message, message, self_id) ==
  [kind |-> "object", post_type |-> post_type, sub_type |-> sub_type,
   message_type |-> message_type, user_id |-> user_id, group_id |-> group_id,
   raw_message |-> raw_message, message |-> message, self_id |-> self_id]

RECURSIVE ConcatAll(_)
ConcatAll(seqs) == IF seqs = <<>> THEN <<>> ELSE Head(seqs) \o ConcatAll(Tail(seqs))

renderSegment(segment) ==
  IF segment.type = "text"
  THEN IF segment.text.t = "string" THEN segment.text.v ELSE <<>>
  ELSE IF segment.type = "at"
       THEN IF segment.qq.t \in {"string", "number"} THEN <<"@">> \o segment.qq.v ELSE <<>>
       ELSE <<>>

renderOneBot11Text(message) ==
  LET raw == IF message.raw_message.t = "string" THEN trim(message.raw_message.v) ELSE <<>>
  IN IF raw # <<>> THEN raw
     ELSE IF message.message.t = "string" THEN trim(message.message.v)
     ELSE IF message.message.t = "array"
          THEN trim(ConcatAll([i \in 1..Len(message.message.v) |->
                                 renderSegment(message.message.v[i])]))
          ELSE <<>>

NoLocation == [url |-> <<>>, path |-> <<>>]

resolveImageLocation(url, file) ==
  IF asTrimmedString(url) # <<>> THEN [url |-> asTrimmedString(url), path |-> <<>>]
  ELSE LET f == asTrimmedString(file)
       IN IF f = <<>> THEN NoLocation
          ELSE IF toLowerCaseTok(Head(f)) \in HttpSchemes THEN [url |-> f, path |-> <<>>]
          ELSE [url |-> <<>>, path |-> f]

InboundImage(index, source, location) ==
  [index |-> index, source |-> source, url |-> location.url, path |-> location.path]

\* index is the segment's position in the array, from 0.
extractImagesFromSegments(message) ==
  IF message.message.t # "array" THEN <<>>
  ELSE LET segs == message.message.v
           at(i) == InboundImage(i - 1, "segment", resolveImageLocation(segs[i].url, segs[i].file))
           Located(i) == segs[i].type = "image" /\ at(i).url \o at(i).path # <<>>
           RECURSIVE from(_)
           from(i) == IF i > Len(segs) THEN <<>>
                      ELSE IF Located(i) THEN <<at(i)>> \o from(i + 1) ELSE from(i + 1)
       IN from(1)

\* The position of the first "]" at or after i, 0 when there is none.
RECURSIVE closeFrom(_, _)
closeFrom(raw, i) ==
  IF i > Len(raw) THEN 0 ELSE IF raw[i] = CqClose THEN i ELSE closeFrom(raw, i + 1)

\* matcher.exec over raw_message: every CQ code counts for index, an image
\* code with a location yields an image.
RECURSIVE scanCq(_, _, _)
scanCq(raw, i, index) ==
  IF i > Len(raw) THEN <<>>
  ELSE IF raw[i] \notin CqOpeners THEN scanCq(raw, i + 1, index)
  ELSE LET j == closeFrom(raw, i + 1)
       IN IF j = 0 THEN <<>>
          ELSE LET location == resolveImageLocation(NullV, Str(SubSeq(raw, i + 1, j - 1)))
                   rest == scanCq(raw, j + 1, index + 1)
               IN IF raw[i] = CqImageFile /\ location # NoLocation
                  THEN <<InboundImage(index, "cq", location)>> \o rest
                  ELSE rest

extractImagesFromRawMessage(message) ==
  IF message.raw_message.t # "string" THEN <<>>
  ELSE scanCq(message.raw_message.v, 1, 0)

\* The first image of each url/path pair, in order.
dedupeImages(images) ==
  LET Key(image) == <<image.url, image.path>>
      First(i) == \A j \in 1..(i - 1) : Key(images[j]) # Key(images[i])
      RECURSIVE from(_)
      from(i) == IF i > Len(images) THEN <<>>
                 ELSE IF First(i) THEN <<images[i]>> \o from(i + 1) ELSE from(i + 1)
  IN from(1)

extractInboundImages(message) ==
  dedupeImages(extractImagesFromSegments(message) \o extractImagesFromRawMessage(message))

\* rawMessage.includes(mentionToken)
RECURSIVE includesAt(_, _, _)
includesAt(s, sub, i) ==
  IF i + Len(sub) - 1 > Len(s) THEN FALSE
  ELSE IF SubSeq(s, i, i + Len(sub) - 1) = sub THEN TRUE
  ELSE includesAt(s, sub, i + 1)

includes(s, sub) == includesAt(s, sub, 1)

detectMentionFromSegmentsUntrimmed(message, selfId) ==
  IF selfId = <<>> \/ message.message.t # "array" THEN FALSE
  ELSE \E i \in 1..Len(message.message.v) :
         LET record == message.message.v[i]
         IN /\ record.type = "at"
            /\ record.qq.t \in {"string", "number"}
            /\ String(record.qq) = selfId

detectMentionFromSegments(message, selfId) ==
  IF selfId = <<>> \/ message.message.t # "array" THEN FALSE
  ELSE \E i \in 1..Len(message.message.v) :
         LET record == message.message.v[i]
         IN record.type = "at" /\ asTrimmedString(record.qq) = selfId

Rejected(reason) == [ok |-> FALSE, reason |-> reason]

\* The fields of the accepted event that the properties read; messageId,
\* timestampMs and senderName are left out.
Accepted(chatType, chatId, senderId, text, wasMentioned, images) ==
  [ok |-> TRUE, chatType |-> chatType, chatId |-> chatId, senderId |-> senderId,
   text |-> text, wasMentioned |-> wasMentioned, images |-> images,
   imageUrls |-> [i \in 1..Len(SelectSeq(images, LAMBDA m : m.url # <<>>)) |->
                    SelectSeq(images, LAMBDA m : m.url # <<>>)[i].url],
   imagePaths |-> [i \in 1..Len(SelectSeq(images, LAMBDA m : m.path # <<>>)) |->
                     SelectSeq(images, LAMBDA m : m.path # <<>>)[i].path]]

idString(value) == IF value.t = "null" THEN <<>> ELSE trim(String(value))

wasMentionedIn(event) ==
  LET selfId == IF event.self_id.t = "null" THEN <<>> ELSE String(event.self_id)
      rawMessage == IF event.raw_message.t = "string" THEN event.raw_message.v ELSE <<>>
      mentionToken == IF selfId # <<>> THEN <<CqAt>> \o selfId \o <<CqClose>> ELSE <<>>
  IN (mentionToken # <<>> /\ includes(rawMessage, mentionToken))
     \/ detectMentionFromSegments(event, selfId)

parseOneBot11InboundEventTextRequired(payload) ==
  IF payload.kind # "object" THEN Rejected("not an object")
  ELSE IF payload.post_type # "message" THEN Rejected("unsupported post_type")
  ELSE IF payload.sub_type \in {"group_increase", "group_decrease"}
       THEN Rejected("non-message subtype")
  ELSE IF idString(payload.user_id) = <<>> THEN Rejected("missing sender id")
  ELSE IF payload.message_type = "group" /\ idString(payload.group_id) = <<>>
       THEN Rejected("missing chat id")
  ELSE IF renderOneBot11Text(payload) = <<>> THEN Rejected("empty message")
  ELSE Accepted(IF payload.message_type = "group" THEN "group" ELSE "private",
                IF payload.message_type = "group" THEN idString(payload.group_id)
                ELSE idString(payload.user_id),
                idString(payload.user_id), renderOneBot11Text(payload),
                wasMentionedIn(payload), extractInboundImages(payload))

parseOneBot11InboundEvent(payload) ==
  IF payload.kind # "object" THEN Rejected("not an object")
  ELSE IF payload.post_type # "message" THEN Rejected("unsupported post_type")
  ELSE IF payload.sub_type \in {"group_increase", "group_decrease"}
       THEN Rejected("non-message subtype")
  ELSE LET chatType == IF payload.message_type = "group" THEN "group" ELSE "private"
           senderId == idString(payload.user_id)
           chatId == IF chatType = "group" THEN idString(payload.group_id)
                     ELSE idString(payload.user_id)
           text == renderOneBot11Text(payload)
           images == extractInboundImages(payload)
       IN IF senderId = <<>> THEN Rejected("missing sender id")
          ELSE IF chatId = <<>> THEN Rejected("missing chat id")
          ELSE IF text = <<>> /\ Len(images) = 0 THEN Rejected("empty message")
          ELSE Accepted(chatType, chatId, senderId, text, wasMentionedIn(payload), images)

\* Payloads that probe the order of the checks: every combination of the
\* fields the rejections read, with no content, a text or only an image.
GateProbes ==
  {NonObjectPayload} \cup
  {WireEvent(post_type, sub_type, message_type, user_id, group_id, NullV, message, Num(SelfDigits)) :
     post_type \in {"message", "notice"}, sub_type \in {"normal", "group_increase"},
     message_type \in {"group", "private"}, user_id \in UserIds, group_id \in GroupIds,
     message \in {NoMessage, MessageString(<<"hi", WS>>), MessageArray(<<SegImageUrl>>)}}

\* Message events of a known sender with every content.
ContentProbes ==
  {WireEvent("message", "normal", message_type, Num(<<"7">>), Num(<<"5">>), raw_message, message, self_id) :
     message_type \in {"group", "private"}, raw_message \in RawMessages,
     message \in Messages, self_id \in SelfIds}

Payloads == GateProbes \cup ContentProbes

EventCall(payload) == [pc |-> "event", payload |-> payload, result |-> NotApplied]

EventParse ==
  /\ call.pc = "event"
  /\ call.result = NotApplied
  /\ call' = [call EXCEPT !.result = parseOneBot11InboundEvent(call.payload)]
  /\ UNCHANGED otherThanCall

InitEvent ==
  /\ NothingElseRunning
  /\ \E payload \in Payloads : call = EventCall(payload)

NextEvent == EventParse

SpecEvent == InitEvent /\ [][NextEvent]_vars

EventParsed == call.pc = "event" /\ call.result # NotApplied

IsObjectPayload == call.payload.kind = "object"

\* The conditions of the six rejections, each read off the payload alone.
NotMessagePost == call.payload.post_type # "message"
MembershipSubtype == call.payload.sub_type \in {"group_increase", "group_decrease"}
NoSenderId ==
  call.payload.user_id.t = "null" \/ trim(call.payload.user_id.v) = <<>>
NoChatId ==
  IF call.payload.message_type = "group"
  THEN call.payload.group_id.t = "null" \/ trim(call.payload.group_id.v) = <<>>
  ELSE NoSenderId
NoContent ==
  renderOneBot11Text(call.payload) = <<>> /\ extractInboundImages(call.payload) = <<>>

ExpectedReason ==
  IF ~IsObjectPayload THEN "not an object"
  ELSE IF NotMessagePost THEN "unsupported post_type"
  ELSE IF MembershipSubtype THEN "non-message subtype"
  ELSE IF NoSenderId THEN "missing sender id"
  ELSE IF NoChatId THEN "missing chat id"
  ELSE IF NoContent THEN "empty message"
  ELSE "accepted"

\* C18: a payload is rejected with the first applicable of "not an object",
\* "unsupported post_type", "non-message subtype", "missing sender id",
\* "missing chat id", "empty message", and the last only when the rendered
\* text is empty and no image was extracted; an image-only message is
\* accepted with the empty text.
C18_FirstReason ==
  EventParsed =>
    /\ call.result.ok <=> ExpectedReason = "accepted"
    /\ ~call.result.ok => call.result.reason = ExpectedReason
    /\ (call.result.ok /\ renderOneBot11Text(call.payload) = <<>>) =>
         /\ call.result.text = <<>>
         /\ call.result.images # <<>>

C18_Witness ==
  /\ EventParsed
  /\ call.payload.kind = "object"
  /\ call.payload.raw_message = NullV
  /\ call.payload.message = MessageArray(<<SegImageUrl>>)
  /\ call.result.ok
  /\ call.result.text = <<>>
  /\ call.result.imageUrls = <<ImageUrl>>

SelfIdString ==
  IF call.payload.self_id.t = "null" THEN <<>> ELSE String(call.payload.self_id)

RawMentionsSelf ==
  /\ SelfIdString # <<>>
  /\ call.payload.raw_message.t = "string"
  /\ includes(call.payload.raw_message.v, <<CqAt>> \o SelfIdString \o <<CqClose>>)

AtSegments ==
  IF call.payload.message.t = "array"
  THEN {call.payload.message.v[i] : i \in 1..Len(call.payload.message.v)} \cap
       {g \in Segments : g.type = "at"}
  ELSE {}

\* C19 as stated: an accepted event is mentioned iff raw_message contains
\* "[CQ:at,qq=<self_id>]" or an "at" segment's data.qq converted to a string
\* equals self_id converted to a string.
C19_AsStated ==
  (EventParsed /\ call.result.ok) =>
    (call.result.wasMentioned <=>
       \/ RawMentionsSelf
       \/ SelfIdString # <<>> /\ \E g \in AtSegments : String(g.qq) = SelfIdString)

\* C19: an accepted event is mentioned iff raw_message contains
\* "[CQ:at,qq=<self_id>]" or an "at" segment's data.qq, a string trimmed of
\* surrounding whitespace or a number converted to a string, equals self_id
\* converted to a string (untrimmed); false with neither or with no self_id.
C19_MentionSignals ==
  (EventParsed /\ call.result.ok) =>
    (call.result.wasMentioned <=>
       \/ RawMentionsSelf
       \/ SelfIdString # <<>> /\
          \E g \in AtSegments :
            (IF g.qq.t = "string" THEN trim(g.qq.v) ELSE g.qq.v) = SelfIdString)

C19_Witness ==
  /\ EventParsed
  /\ call.result.ok
  /\ call.result.wasMentioned
  /\ ~RawMentionsSelf
  /\ call.payload.self_id = Num(SelfDigits)
  /\ call.payload.message = MessageArray(<<SegAtSelfPadded>>)


\* ------------------------------------------------------------------------
\* Account resolution (accounts.ts) and the provider monitor (monitor.ts)
\* ------------------------------------------------------------------------
\* An optional boolean property of the configuration.
EnabledFlags == {"absent", "true", "false"}

otherThanMonitor == <<inboundVars, out, call>>

\* {...base, ...account}.enabled: the account's own property when it has
\* one, the channel's otherwise.
mergedEnabled(channelEnabled, accountEnabled) ==
  IF accountEnabled # "absent" THEN accountEnabled ELSE channelEnabled

resolvedEnabledAccountOnly(channelEnabled, accountEnabled) ==
  accountEnabled # "false"

\* resolveOneBot11Account(...).enabled
resolvedEnabled(channelEnabled, accountEnabled) ==
  LET baseEnabled == channelEnabled # "false"
      accountEnabledFlag == mergedEnabled(channelEnabled, accountEnabled) # "false"
  IN baseEnabled /\ accountEnabledFlag

\* monitorOneBot11Provider is called for an account whose channel section
\* and own entry carry these enabled properties and this sseUrl/endpoint.
MonitorCall(channelEnabled, accountEnabled, sseUrl) ==
  [pc |-> "called", channelEnabled |-> channelEnabled,
   accountEnabled |-> accountEnabled, sseUrl |-> sseUrl,
   enabled |-> FALSE, statuses |-> <<>>, handle |-> "none",
   abortSignalAborted |-> FALSE, stopCalls |-> 0]

StatusPatch(connected, kind) == [connected |-> connected, kind |-> kind]

statusSink(m, patch) == [m EXCEPT !.statuses = Append(m.statuses, patch)]

\* monitorOneBot11Provider up to "await client.connect()": the monitor's and
\* the client's state. The client's default cap of 10 reconnect attempts is
\* lowered to MaxAttemptsCap.
monitorOneBot11Provider(m) ==
  LET enabled == resolvedEnabled(m.channelEnabled, m.accountEnabled)
  IN IF ~enabled
     THEN [mon |-> [m EXCEPT !.pc = "returned", !.handle = "noop"], sse |-> NoSseClient]
     ELSE IF trim(m.sseUrl) = <<>>
          THEN [mon |-> [m EXCEPT !.pc = "threw", !.enabled = TRUE], sse |-> NoSseClient]
          ELSE [mon |-> statusSink([m EXCEPT !.pc = "connecting", !.enabled = TRUE],
                                   StatusPatch(TRUE, "started")),
                sse |-> connectLoop(OneBot11SSEClient(trim(m.sseUrl), TRUE, MaxAttemptsCap))]

connectSettledCatchOnly(m, threw) ==
  LET caught == IF threw /\ ~m.abortSignalAborted
                THEN statusSink(m, StatusPatch(FALSE, "lastError")) ELSE m
  IN [(IF threw THEN caught ELSE statusSink(caught, StatusPatch(FALSE, "finally"))) EXCEPT
        !.pc = IF threw /\ ~m.abortSignalAborted THEN "threw" ELSE "returned",
        !.handle = IF threw /\ ~m.abortSignalAborted THEN "none" ELSE "stop"]

\* client.connect() has settled: the catch and the finally of the monitor.
connectSettled(m, threw) ==
  LET caught == IF threw /\ ~m.abortSignalAborted
                THEN statusSink(m, StatusPatch(FALSE, "lastError")) ELSE m
  IN [statusSink(caught, StatusPatch(FALSE, "finally")) EXCEPT
        !.pc = IF threw /\ ~m.abortSignalAborted THEN "threw" ELSE "returned",
        !.handle = IF threw /\ ~m.abortSignalAborted THEN "none" ELSE "stop"]

\* client.close() through the stop handle; a second close changes nothing.
stop(s) == IF s.closed THEN s ELSE close(s)

MonStart ==
  /\ mon.pc = "called"
  /\ \E r \in {monitorOneBot11Provider(mon)} :
       /\ mon' = r.mon
       /\ sse' = r.sse
  /\ UNCHANGED otherThanMonitor

MonConnectSettles ==
  /\ mon.pc = "connecting"
  /\ sse.pc \in {"returned", "threw"}
  /\ mon' = connectSettled(mon, sse.pc = "threw")
  /\ UNCHANGED <<sse, otherThanMonitor>>

\* The reconnect delay elapses: the monitor's onReconnect publishes the
\* attempt count, then the client goes back to its loop head.
MonReconnect ==
  /\ mon.pc = "connecting"
  /\ sse.pc = "waiting"
  /\ \E n \in {connectLoop([sse EXCEPT !.reconnectCalls = sse.reconnectCalls + 1,
                                        !.timer = 0])} :
       /\ n.gets <= MaxGets
       /\ sse' = n
  /\ mon' = statusSink(mon, StatusPatch(FALSE, "reconnect"))
  /\ UNCHANGED otherThanMonitor

\* The caller's abort signal fires. The listener exists only once the
\* monitor has got past the enabled check and built its client.
MonAbort ==
  /\ mon.pc # "none"
  /\ ~mon.abortSignalAborted
  /\ mon' = [mon EXCEPT !.abortSignalAborted = TRUE]
  /\ sse' = IF mon.pc \in {"connecting", "returned"} /\ sse.pc # "none" THEN stop(sse) ELSE sse
  /\ UNCHANGED otherThanMonitor

\* The caller invokes the stop handle it was returned.
MonStop ==
  /\ mon.pc = "returned"
  /\ mon.stopCalls = 0
  /\ mon' = [mon EXCEPT !.stopCalls = 1]
  /\ sse' = IF mon.handle = "stop" THEN stop(sse) ELSE sse
  /\ UNCHANGED otherThanMonitor

MonitorSseUrls == {<<>>, UrlRootBare}

InitMonitor ==
  /\ cfg = BaseConfig
  /\ groupHistories = [k \in ChatIds |-> <<>>]
  /\ pairingRequests = {}
  /\ storeAllowFrom = <<>>
  /\ pc = "idle"
  /\ last = NoOutcome
  /\ arrivals = [k \in ChatIds |-> <<>>]
  /\ nEvents = 0
  /\ sse = NoSseClient
  /\ out = NoOutbound
  /\ call = NoCall
  /\ \E channelEnabled \in EnabledFlags, accountEnabled \in EnabledFlags,
        sseUrl \in MonitorSseUrls :
       mon = MonitorCall(channelEnabled, accountEnabled, sseUrl)

NextMonitor ==
  \/ MonStart
  \/ MonConnectSettles
  \/ MonReconnect
  \/ MonAbort
  \/ MonStop
  \/ \E outcome \in FetchOutcomes : SseFetchSettles(outcome)
  \/ \E blocks \in 0..MaxBlocks, tail \in BOOLEAN : SseChunk(blocks, tail)
  \/ SseStreamEnds
  \/ SseStreamErrors
  \/ SseCallbackReturns

SpecMonitor == InitMonitor /\ [][NextMonitor]_vars

MonitorRan == mon.pc \notin {"none", "called"}

\* C20: the account is enabled iff neither the channel's enabled flag nor
\* the merged account flag is false; for a disabled account the monitor
\* builds no client (no connection, no event), publishes no status and
\* returns a stop handle whose invocation changes nothing.
C20_DisabledAccountIdle ==
  MonitorRan =>
    /\ mon.enabled <=> (mon.channelEnabled # "false" /\ mon.accountEnabled # "false")
    /\ ~mon.enabled =>
         /\ mon.pc = "returned"
         /\ mon.handle = "noop"
         /\ sse = NoSseClient
         /\ mon.statuses = <<>>

C20_Witness ==
  /\ mon.pc = "returned"
  /\ mon.channelEnabled = "false"
  /\ mon.accountEnabled = "true"
  /\ mon.stopCalls = 1
  /\ mon.abortSignalAborted
  /\ sse = NoSseClient


\* ------------------------------------------------------------------------
\* Outbound adapter: missing shared media directories, resolveTarget
\* ------------------------------------------------------------------------
SyncConfigMissing ==
  out.pc = "done" /\ out.mediaUrl # <<>> /\ ~out.sharedMediaDirs
  /\ parseOneBot11Target(out.target).ok

\* C22: with a shared media directory missing, sendMedia with a media URL
\* rejects with the configuration error and issues no HTTP request, neither
\* an upload nor a text send.
C22_SyncConfigRejects ==
  SyncConfigMissing =>
    /\ out.result.status = "failed"
    /\ out.result.error = "syncConfig"
    /\ out.calls = 0
    /\ out.sends = <<>>

\* The usage-hint error of resolveTarget.
TargetUsageError == [ok |-> FALSE, error |-> "--target <id|private:id|group:id>"]

\* onebot11Outbound.resolveTarget({to})
resolveTarget(to) ==
  LET target == normalizeOneBot11MessagingTarget(to)
  IN IF target = <<>> THEN TargetUsageError ELSE [ok |-> TRUE, to |-> target]

ResolveTargetCall(to) == [pc |-> "resolveTarget", to |-> to, result |-> NotApplied]

ResolveTarget ==
  /\ call.pc = "resolveTarget"
  /\ call.result = NotApplied
  /\ call' = [call EXCEPT !.result = resolveTarget(call.to)]
  /\ UNCHANGED otherThanCall

InitResolveTarget ==
  /\ NothingElseRunning
  /\ \E to \in TargetStrings : call = ResolveTargetCall(to)

NextResolveTarget == ResolveTarget

SpecResolveTarget == InitResolveTarget /\ [][NextResolveTarget]_vars

\* C23: resolveTarget returns {ok:true, to:<normalized>} only for a valid
\* target (<digits>, private:<digits>, group:<digits> after prefix
\* stripping); blank and invalid input get {ok:false} with the usage hint.
C23_ResolveTargetValidates ==
  (call.pc = "resolveTarget" /\ call.result # NotApplied) =>
    LET normalized == stripChannelPrefix(trim(call.to))
    IN IF IsExplicitTarget(normalized) \/ IsBareTarget(normalized)
       THEN call.result = [ok |-> TRUE, to |-> normalized]
       ELSE call.result = TargetUsageError


\* ------------------------------------------------------------------------
\* Outbound logging (logging.ts) and the action transport (actions.ts)
\* ------------------------------------------------------------------------
PREFIX == "[onebot11/outbound]"
MAX_FIELD_CHARS == 160

Bool(b) == [t |-> "boolean", v |-> IF b THEN <<"true">> ELSE <<"false">>]
Arr(items) == [t |-> "array", v |-> items]
UndefinedV == [t |-> "undefined", v |-> <<>>]

trimLong(value) ==
  IF Len(value) <= MAX_FIELD_CHARS THEN value
  ELSE SubSeq(value, 1, MAX_FIELD_CHARS - 3) \o <<"...">>

\* JSON.stringify of a string, and of an array of strings.
Quoted(str) == <<"\"">> \o str \o <<"\"">>

RECURSIVE QuotedItems(_)
QuotedItems(items) ==
  IF items = <<>> THEN <<>>
  ELSE IF Len(items) = 1 THEN Quoted(<<items[1]>>)
  ELSE Quoted(<<items[1]>>) \o <<",">> \o QuotedItems(Tail(items))

formatValue(value) ==
  CASE value.t = "string" -> Quoted(trimLong(value.v))
    [] value.t \in {"number", "boolean"} -> value.v
    [] value.t = "null" -> <<"null">>
    [] OTHER -> trimLong(<<"[">> \o QuotedItems(value.v) \o <<"]">>)

\* The field names the transport logs, in localeCompare order.
FieldOrder ==
  <<"action", "bodyChars", "elapsedMs", "endpoint", "error", "hasAccessToken",
    "hasData", "ok", "payloadKeys", "resultStatus", "retcode", "statusCode">>

RECURSIVE formatEntries(_, _)
formatEntries(fields, keys) ==
  IF keys = <<>> THEN <<>>
  ELSE LET key == Head(keys)
           rest == formatEntries(fields, Tail(keys))
       IN IF key \in DOMAIN fields /\ fields[key] # UndefinedV
          THEN <<WS, key, "=">> \o formatValue(fields[key]) \o rest
          ELSE rest

\* "" when no field is defined, else the entries sorted by key, each
\* key=value and separated by one space (here: each preceded by one).
formatFields(fields) == formatEntries(fields, FieldOrder)

buildLine(event, fields) == <<PREFIX, WS, "event=", event>> \o formatFields(fields)

QueryToks == {"?access_token=", "?x=1"}

\* scheme, host and path of the endpoint; the query string is left out.
summarizeEndpoint(endpoint) == SelectSeq(endpoint, LAMBDA t : t \notin QueryToks)

summarizeError(error) == trimLong(error.message)

logOutboundDebug(lines, event, fields) == Append(lines, buildLine(event, fields))

logOutboundError(lines, event, error, fields) ==
  Append(lines, buildLine(event, fields @@ ("error" :> Str(summarizeError(error)))))

\* The actions the outbound code requests, with their payloads.
ActionNames == {"send_group_msg", "send_private_msg", "upload_group_file", "upload_private_file"}

PayloadOf(action) ==
  CASE action = "send_group_msg" ->
         ("message" :> <<"hello">>) @@ ("auto_escape" :> <<"false">>) @@ ("group_id" :> <<"42">>)
    [] action = "send_private_msg" ->
         ("message" :> <<"hello">>) @@ ("auto_escape" :> <<"false">>) @@ ("user_id" :> <<"7">>)
    [] action = "upload_group_file" ->
         ("group_id" :> <<"42">>) @@ ("file" :> <<"/shared/", "1_ab.png">>) @@ ("name" :> <<"m.png">>)
    [] OTHER ->
         ("user_id" :> <<"7">>) @@ ("file" :> <<"/shared/", "1_ab.png">>) @@ ("name" :> <<"m.png">>)

PayloadKeyOrder == <<"auto_escape", "file", "group_id", "message", "name", "user_id">>

\* Object.keys(payload).sort()
sortedKeys(payload) == SelectSeq(PayloadKeyOrder, LAMBDA k : k \in DOMAIN payload)

\* A presence bit stands in for the token in the request line.
accessTokenItself(accessToken) == Str(trim(accessToken))

hasAccessToken(accessToken) == Bool(trim(accessToken) # <<>>)

LogEndpoints == {<<"http://bot:3000", "/api">>, <<"http://bot:3000", "/api", "?access_token=">>}

LogTokens == {Undefined, <<WS>>, <<"tok-a">>, <<WS, "tok-b", WS>>}

ElapsedMs == Num(<<"5">>)

\* What the server and the network do to the request; the same in both runs.
FetchResults ==
  {[kind |-> "reject", message |-> <<"fetch failed">>, status |-> <<>>, body |-> <<>>],
   [kind |-> "http", message |-> <<>>, status |-> <<"401">>, body |-> <<"unauthorized">>],
   [kind |-> "http", message |-> <<>>, status |-> <<"500">>, body |-> <<>>],
   [kind |-> "parseError", message |-> <<"Unexpected token <">>, status |-> <<"200">>, body |-> <<>>],
   [kind |-> "ok", message |-> <<>>, status |-> <<"200">>, body |-> <<>>],
   [kind |-> "okNoRetcode", message |-> <<>>, status |-> <<"200">>, body |-> <<>>],
   [kind |-> "failedWording", message |-> <<"bot offline">>, status |-> <<"200">>, body |-> <<>>],
   [kind |-> "failedRetcode", message |-> <<>>, status |-> <<"200">>, body |-> <<>>],
   [kind |-> "failedBare", message |-> <<>>, status |-> <<"200">>, body |-> <<>>]}

\* The parsed envelope of a 2xx answer.
Envelope(res) ==
  [status |-> IF res.kind \in {"ok", "okNoRetcode"} THEN <<"ok">> ELSE <<"failed">>,
   retcode |-> CASE res.kind = "ok" -> Num(<<"0">>)
                 [] res.kind \in {"failedWording", "failedRetcode"} -> Num(<<"1404">>)
                 [] OTHER -> UndefinedV,
   hasData |-> res.kind \in {"ok", "okNoRetcode"},
   wording |-> IF res.kind = "failedWording" THEN res.message ELSE <<>>]

ActionRun(endpoint, action, accessToken) ==
  [endpoint |-> endpoint, action |-> action, payload |-> PayloadOf(action),
   accessToken |-> accessToken, pc |-> "called", lines |-> <<>>,
   headers |-> <<>>, body |-> <<>>, thrown |-> <<>>]

requestFields(r) ==
  ("action" :> Str(<<r.action>>)) @@ ("endpoint" :> Str(summarizeEndpoint(r.endpoint)))

\* sendOneBot11Action up to its fetch.
sendOneBot11Action(r) ==
  LET started == logOutboundDebug(r.lines, "actions.request.start",
                   requestFields(r)
                   @@ ("hasAccessToken" :> hasAccessToken(r.accessToken))
                   @@ ("payloadKeys" :> Arr(sortedKeys(r.payload))))
      contentType == <<[name |-> "Content-Type", value |-> <<"application/json">>]>>
      headers == IF trim(r.accessToken) # <<>>
                 THEN Append(contentType,
                        [name |-> "Authorization", value |-> <<"Bearer ">> \o trim(r.accessToken)])
                 ELSE contentType
  IN [r EXCEPT !.pc = "fetching", !.lines = started, !.headers = headers,
               !.body = [k \in DOMAIN r.payload |-> r.payload[k]]]

\* ensureOneBot11ActionOk(action, result)
ensureOneBot11ActionOk(r, result) ==
  LET fields == ("action" :> Str(<<r.action>>)) @@ ("resultStatus" :> Str(result.status))
                @@ ("retcode" :> result.retcode)
      detail == IF result.wording # <<>> THEN result.wording
                ELSE <<"retcode=">> \o (IF result.retcode = UndefinedV THEN <<"unknown">>
                                        ELSE result.retcode.v)
  IN IF result.status = <<"ok">>
     THEN [r EXCEPT !.pc = "returned",
                    !.lines = logOutboundDebug(r.lines, "actions.result.ok", fields)]
     ELSE [r EXCEPT !.pc = "threw",
                    !.lines = logOutboundError(r.lines, "actions.result.failed",
                                               [message |-> detail], fields),
                    !.thrown = <<"OneBot11 action ", r.action, " returned failure: ">> \o detail]

\* sendOneBot11Action from the moment its fetch settles, and the
\* ensureOneBot11ActionOk every caller applies to what it returns.
fetchSettled(r, res) ==
  LET timed == requestFields(r) @@ ("elapsedMs" :> ElapsedMs)
      status == ("statusCode" :> Num(res.status))
      http == logOutboundDebug(r.lines, "actions.request.http",
                timed @@ status @@ ("ok" :> Bool(res.kind # "http")))
      parsed == Envelope(res)
  IN CASE res.kind = "reject" ->
            [r EXCEPT !.pc = "threw", !.thrown = res.message,
                      !.lines = logOutboundError(r.lines, "actions.request.error",
                                                 [message |-> res.message], timed)]
       [] res.kind = "http" ->
            [r EXCEPT !.pc = "threw",
                      !.thrown = <<"OneBot11 action ", r.action, " failed (">> \o res.status
                                 \o <<")">> \o (IF res.body # <<>> THEN <<": ">> \o res.body
                                                ELSE <<>>),
                      !.lines = logOutboundError(http, "actions.request.http_error",
                                  [message |-> <<"status=">> \o res.status],
                                  timed @@ status
                                  @@ ("bodyChars" :> Num(<<"len:">> \o res.body)))]
       [] res.kind = "parseError" ->
            [r EXCEPT !.pc = "threw", !.thrown = res.message,
                      !.lines = logOutboundError(http, "actions.request.parse_error",
                                                 [message |-> res.message], timed @@ status)]
       [] OTHER ->
            ensureOneBot11ActionOk(
              [r EXCEPT !.lines = logOutboundDebug(http, "actions.request.done",
                                    timed @@ status
                                    @@ ("resultStatus" :> Str(parsed.status))
                                    @@ ("retcode" :> parsed.retcode)
                                    @@ ("hasData" :> Bool(parsed.hasData)))],
              parsed)

\* Two sends of the same action to the same endpoint, answered the same way,
\* by accounts that differ in their access token only.
LogCall(endpoint, action, token1, token2, res) ==
  [pc |-> "log", res |-> res,
   run |-> <<ActionRun(endpoint, action, token1), ActionRun(endpoint, action, token2)>>]

LogSend(run) ==
  /\ call.pc = "log"
  /\ call.run[run].pc = "called"
  /\ call' = [call EXCEPT !.run[run] = sendOneBot11Action(@)]
  /\ UNCHANGED otherThanCall

LogFetchSettles(run) ==
  /\ call.pc = "log"
  /\ call.run[run].pc = "fetching"
  /\ call' = [call EXCEPT !.run[run] = fetchSettled(@, call.res)]
  /\ UNCHANGED otherThanCall

InitLog ==
  /\ NothingElseRunning
  /\ \E endpoint \in LogEndpoints, action \in ActionNames,
        token1 \in LogTokens, token2 \in LogTokens, res \in FetchResults :
       call = LogCall(endpoint, action, token1, token2, res)

NextLog == \E run \in 1..2 : LogSend(run) \/ LogFetchSettles(run)

SpecLog == InitLog /\ [][NextLog]_vars

Contains(hay, needle) ==
  \E i \in 1..(Len(hay) - Len(needle) + 1) : SubSeq(hay, i, i + Len(needle) - 1) = needle

LogFinished(run) == call.pc = "log" /\ call.run[run].pc \in {"returned", "threw"}

\* No line of the run holds the run's token.
TokenNotLogged(run) ==
  LET r == call.run[run]
  IN trim(r.accessToken) # <<>> =>
       \A i \in 1..Len(r.lines) : ~Contains(r.lines[i], trim(r.accessToken))

\* The request is described by the names of its payload keys: every key is
\* named in the request line and no payload value (message text, file path,
\* file name, peer id; auto_escape is the constant false) is in any line.
PayloadKeysOnly(run) ==
  LET r == call.run[run]
  IN /\ r.lines # <<>>
     /\ \A k \in DOMAIN r.payload : Contains(r.lines[1], Quoted(<<k>>))
     /\ \A k \in DOMAIN r.payload \ {"auto_escape"} :
          \A i \in 1..Len(r.lines) :
            \A j \in 1..Len(r.payload[k]) : ~Contains(r.lines[i], <<r.payload[k][j]>>)

DispatchedGroup == pc = "idle" /\ last.done /\ last.event.chatType = "group"

HoldsMessage(entries, messageId) ==
  \E i \in 1..Len(entries) : entries[i].messageId = messageId

\* C24: once the dispatch of a group message has returned, with or without
\* a queued final reply, the chat's pending-history buffer is empty; an
\* entry removed by that clear is in no buffer and in no later dispatch's
\* injected history.
C24_ClearedAfterDispatch ==
  /\ DispatchedGroup => BufferOfLast = <<>> /\ arrivals[last.event.chatId] = <<>>
  /\ \A k \in ChatIds :
       \A i \in 1..Len(last.cleared[k]) :
         /\ ~HoldsMessage(groupHistories[k], last.cleared[k][i].messageId)
         /\ (DispatchingGroup /\ last.event.chatId = k) =>
              /\ ~HoldsMessage(last.selected, last.cleared[k][i].messageId)
              /\ \A j \in 1..Len(last.InboundHistory) :
                   last.InboundHistory[j].timestamp # last.cleared[k][i].timestamp

C24_Witness ==
  /\ DispatchingGroup
  /\ Len(last.cleared[last.event.chatId]) = 1
  /\ last.cleared[last.event.chatId][1].messageId = 1
  /\ last.event.messageId = 3
  /\ last.InboundHistory = <<>>

\* C25: every entry removed by the post-dispatch clear was in the history
\* injected into the dispatch that triggered the clear, under "recent" and
\* under "ai-related-only".
C25_RemovedWereInjected ==
  DispatchedGroup =>
    \A i \in 1..Len(last.removed) :
      \E j \in 1..Len(last.InboundHistory) :
        last.InboundHistory[j] = ProjectEntry(last.removed[i])

\* The sender id matches the effective mention allow-list ("*" matches any
\* sender).
SenderInMentionAllowList ==
  LET eff == effectiveMentionAllowOf(cfg)
  IN \/ \E i \in 1..Len(eff) : eff[i] = <<"*">>
     \/ \E i \in 1..Len(eff) : eff[i] = normalizeAllowEntry(last.event.senderId)

\* A group message that reaches the mention allow-list gate effectively
\* mentioned: mentioned, or a control command that bypasses the mention
\* requirement.
EffectivelyMentioned ==
  /\ HandledGroup
  /\ PassedGroupPolicy
  /\ ~BlockedCommand
  /\ last.event.wasMentioned \/ (requireMentionOf(cfg) /\ BypassingCommand)

\* C26: an effectively mentioned group message, with a non-empty
\* mentionAllowFrom configured, is dispatched only if its sender matches
\* mentionAllowFrom; otherwise there is no dispatch and no session record,
\* and the message is appended to the chat's pending-history buffer.
C26_MentionAllowList ==
  (EffectivelyMentioned /\ Len(effectiveMentionAllowOf(cfg)) > 0) =>
    /\ last.dispatched <=> SenderInMentionAllowList
    /\ ~SenderInMentionAllowList =>
         /\ ~last.dispatched /\ ~last.sessionRecorded
         /\ pc = "idle"
         /\ last.stage = "mentionDenied"
         /\ LastEventBuffered

C26_Witness ==
  /\ EffectivelyMentioned
  /\ Len(effectiveMentionAllowOf(cfg)) > 0
  /\ ~SenderInMentionAllowList
  /\ ~last.event.wasMentioned
  /\ LastEventBuffered
  /\ nEvents = 2


\* ------------------------------------------------------------------------
\* SSE client: active URL, reconnect backoff, reconnect callback
\* ------------------------------------------------------------------------
NoDuplicates(seq) == \A i, j \in 1..Len(seq) : i # j => seq[i] # seq[j]

\* C27: when a connection attempt succeeds its URL becomes the active URL
\* and the reconnect-attempt counter is zero; the next cycle probes the
\* active URL first, then the remaining candidates in their original order,
\* and no cycle probes a URL twice.
C27_ActiveUrlFirst ==
  /\ sse.pc \in {"streaming", "inCallback"} =>
       /\ sse.activeUrl = sse.attemptUrls[sse.attemptIdx]
       /\ sse.reconnectAttempts = 0
  /\ sse.pc # "none" =>
       /\ sse.activeUrl = IF sse.lastSucceeded # <<>> THEN sse.lastSucceeded
                          ELSE ExpectedCandidates[1]
       /\ sse.cycles >= 1 =>
            /\ IsPrefix(sse.probes, <<sse.cycleActive>>
                                    \o SelectSeq(sse.candidateUrls, NotCycleActive))
            /\ NoDuplicates(sse.probes)
            /\ (sse.probes # <<>> /\ ~sse.succeededInCycle) => sse.probes[1] = sse.activeUrl

C27_Witness ==
  /\ sse.cycles = 2
  /\ sse.lastSucceeded = <<Origin, "/_events">>
  /\ sse.probes = <<<<Origin, "/_events">>, <<Origin, "/">>>>
  /\ sse.reconnectAttempts = 1
  /\ sse.pc = "fetching"

\* C29: every cycle but the first follows exactly one call of the reconnect
\* callback, so the number of calls is the number of cycles started minus
\* one (until the client is closed).
C29_OneCallbackPerCycle ==
  (sse.pc # "none" /\ sse.cycles >= 1 /\ ~sse.closed) =>
    sse.reconnectCalls = sse.cycles - 1

MaxBackoffGets == 7

\* <<reconnectDelay, maxReconnectDelay, maxReconnectAttempts>>: the defaults,
\* a cap that is not a doubling of the base delay, and a cap below it.
BackoffSettings ==
  { <<DefaultReconnectDelay, DefaultMaxReconnectDelay, DefaultMaxReconnectAttempts>>,
    <<DefaultReconnectDelay, 2500, 3>>,
    <<DefaultMaxReconnectDelay, DefaultReconnectDelay, MaxAttemptsCap>> }

\* A client with an explicit stream URL (one candidate) that reconnects.
InitBackoff ==
  /\ cfg = BaseConfig
  /\ groupHistories = [k \in ChatIds |-> <<>>]
  /\ pairingRequests = {}
  /\ storeAllowFrom = <<>>
  /\ pc = "idle"
  /\ last = NoOutcome
  /\ arrivals = [k \in ChatIds |-> <<>>]
  /\ nEvents = 0
  /\ \E b \in BackoffSettings :
       sse = [OneBot11SSEClient(UrlExplicit, TRUE, b[3]) EXCEPT
                !.reconnectDelay = b[1], !.maxReconnectDelay = b[2]]
  /\ out = NoOutbound
  /\ call = NoCall
  /\ mon = NoMonitor

NextBackoff ==
  \/ SseConnect
  \/ \E outcome \in FetchOutcomes : SseFetchSettlesWithin(outcome, MaxBackoffGets)
  \/ SseStreamEndsWithin(MaxBackoffGets)
  \/ SseTimerFiresWithin(MaxBackoffGets)
  \/ SseClose

SpecBackoff == InitBackoff /\ [][NextBackoff]_vars

\* The base delay doubled k - 1 times.
RECURSIVE Doubled(_, _)
Doubled(delay, k) == IF k <= 1 THEN delay ELSE 2 * Doubled(delay, k - 1)

DefaultWaits == <<1000, 2000, 4000, 8000, 16000>>

HasDefaultDelays ==
  /\ sse.reconnectDelay = DefaultReconnectDelay
  /\ sse.maxReconnectDelay = DefaultMaxReconnectDelay

\* C28: the wait before the k-th consecutive reconnect attempt is
\* min(reconnectDelay * 2^(k-1), maxReconnectDelay), with the defaults 1000,
\* 2000, 4000, 8000, 16000 and then 30000 ms; the reconnect-attempt counter
\* never exceeds maxReconnectAttempts.
C28_BackoffDelay ==
  sse.pc # "none" =>
    /\ sse.reconnectAttempts <= sse.maxReconnectAttempts
    /\ sse.pc = "waiting" =>
         LET k == sse.reconnectAttempts
             doubled == Doubled(sse.reconnectDelay, k)
         IN /\ k >= 1
            /\ sse.timer = IF doubled <= sse.maxReconnectDelay THEN doubled
                           ELSE sse.maxReconnectDelay
            /\ HasDefaultDelays =>
                 sse.timer = IF k <= Len(DefaultWaits) THEN DefaultWaits[k] ELSE 30000
    /\ sse.pc # "waiting" /\ ~sse.closed => sse.timer = 0

C28_Witness ==
  /\ sse.pc = "waiting"
  /\ HasDefaultDelays
  /\ sse.reconnectAttempts = 6
  /\ sse.timer = 30000
  /\ sse.cycles = 6


\* ------------------------------------------------------------------------
\* SSE client: event blocks that fail
\* ------------------------------------------------------------------------
InitBlocks ==
  /\ cfg = BaseConfig
  /\ groupHistories = [k \in ChatIds |-> <<>>]
  /\ pairingRequests = {}
  /\ storeAllowFrom = <<>>
  /\ pc = "idle"
  /\ last = NoOutcome
  /\ arrivals = [k \in ChatIds |-> <<>>]
  /\ nEvents = 0
  /\ \E autoReconnect \in BOOLEAN :
       sse = OneBot11SSEClient(UrlExplicit, autoReconnect, 1)
  /\ out = NoOutbound
  /\ call = NoCall
  /\ mon = NoMonitor

MaxBlockGets == 2
MaxBlockEvents == 3

NextBlocks ==
  /\ \/ SseConnect
     \/ \E outcome \in FetchOutcomes : SseFetchSettles(outcome)
     \/ \E blocks \in 0..MaxBlocks, tail \in BOOLEAN, malformed \in SUBSET (1..(MaxBlocks + 1)) :
          SseChunkOf(blocks, tail, malformed)
     \/ SseStreamEnds
     \/ SseStreamErrors
     \/ SseCallbackReturns
     \/ SseCallbackThrows
     \/ SseTimerFires
     \/ SseClose
  /\ sse'.gets <= MaxBlockGets
  /\ sse'.arrived <= MaxBlockEvents

SpecBlocks == InitBlocks /\ [][NextBlocks]_vars

Range(seq) == {seq[i] : i \in 1..Len(seq)}

\* What the log and the callback have seen of the current stream: only
\* blocks that failed are logged, every callback that threw is logged, a
\* block that does not parse is never handed to the callback, and after a
\* logged failure every later well-formed block that has been taken from
\* the buffer was handed to the callback.
FailuresLoggedOnly ==
  sse.pc # "none" =>
    /\ sse.logged \subseteq (sse.bad \cup sse.thrown)
    /\ sse.thrown \subseteq sse.logged
    /\ sse.thrown \subseteq Range(sse.started)
    /\ \A i \in sse.bad : i \notin Range(sse.started)
    /\ sse.pc \in {"streaming", "inCallback"} =>
         \A i \in sse.logged :
           \A j \in (i + 1)..sse.arrived :
             (j \notin sse.bad /\ j \notin Range(sse.queue)) => j \in Range(sse.started)

StreamUntouched ==
  /\ sse'.pc \in {"streaming", "inCallback"}
  /\ sse'.gets = sse.gets
  /\ sse'.cycles = sse.cycles
  /\ sse'.aborted = sse.aborted
  /\ sse'.streamAbortController = sse.streamAbortController
  /\ sse'.reconnectAttempts = sse.reconnectAttempts
  /\ sse'.reconnectCalls = sse.reconnectCalls

\* A callback throws for a block of a chunk: the stream stays as it is and
\* the next well-formed block of the chunk is handed to the callback.
ThrowKeepsStream ==
  (sse.pc = "inCallback" /\ ~sse.flushing /\ sse'.thrown # sse.thrown) =>
    /\ StreamUntouched
    /\ \A j \in Range(sse.queue) :
         (j \notin sse.bad /\ \A i \in Range(sse.queue) : i < j => i \in sse.bad) =>
           sse'.started = Append(sse.started, j)

\* A chunk with a block that does not parse is read: the stream stays as it
\* is and every other block of the chunk is handed to the callback or kept.
ParseFailureKeepsStream ==
  (sse.pc = "streaming" /\ ~sse.aborted /\ sse'.chunks > sse.chunks) =>
    /\ StreamUntouched
    /\ \A j \in (sse.arrived + 1)..sse'.arrived :
         IF j \in sse'.bad
         THEN j \in sse'.logged \/ j \in Range(sse'.queue)
         ELSE j \in Range(sse'.started) \/ j \in Range(sse'.queue)

\* C30: a failure while handling one event block (its data is not JSON, or
\* the event callback throws) is logged and only that block is dropped: the
\* stream is not aborted, no reconnect is triggered, and every later
\* well-formed event of the stream is still delivered.
C30_BlockFailureIsolated ==
  /\ [](FailuresLoggedOnly)
  /\ [][ThrowKeepsStream /\ ParseFailureKeepsStream]_vars

C30_Witness ==
  /\ sse.pc = "inCallback"
  /\ sse.gets = 1
  /\ sse.cycles = 1
  /\ sse.bad = {1}
  /\ sse.logged = {1, 2}
  /\ sse.thrown = {2}
  /\ sse.started = <<2, 3>>


\* ------------------------------------------------------------------------
\* The monitor's event callback (monitor.ts): from the wire event to the
\* inbound handler
\* ------------------------------------------------------------------------
MaxForwardEvents == 1

\* The event object literal the callback hands to handleOneBot11Inbound: the
\* fields it copies from the parsed event; images, imageUrls and imagePaths
\* are not among them.
forwardedEvent(parsed) ==
  [BaseEvent EXCEPT !.chatType = parsed.chatType, !.chatId = parsed.chatId,
                    !.senderId = parsed.senderId, !.text = parsed.text,
                    !.wasMentioned = parsed.wasMentioned]

\* onEvent(payload): parse, return if rejected, else await the handler.
MonOnEvent ==
  /\ call.pc = "event"
  /\ \E parsed \in {parseOneBot11InboundEvent(call.payload)} :
       /\ parsed.ok
       /\ handleOneBot11Inbound(forwardedEvent(parsed), TRUE, MaxForwardEvents)

ForwardConfigs ==
  {[BaseConfig EXCEPT !.dmPolicy = "open", !.groupPolicy = "open",
                      !.requireMention = requireMention] :
     requireMention \in {"true", "false"}}

InitForward ==
  /\ cfg \in ForwardConfigs
  /\ groupHistories = [k \in ChatIds |-> <<>>]
  /\ pairingRequests = {}
  /\ storeAllowFrom = <<>>
  /\ pc = "idle"
  /\ last = NoOutcome
  /\ arrivals = [k \in ChatIds |-> <<>>]
  /\ nEvents = 0
  /\ sse = NoSseClient
  /\ out = NoOutbound
  /\ \E payload \in ContentProbes : call = EventCall(payload)
  /\ mon = NoMonitor

NextForward ==
  \/ MonOnEvent
  \/ \E queuedFinal \in BOOLEAN : dispatchReturns(queuedFinal)

SpecForward == InitForward /\ [][NextForward]_vars

\* The callback has handed the accepted wire event to the handler.
Forwarded == call.pc = "event" /\ nEvents >= 1

ParsedOfCall == parseOneBot11InboundEvent(call.payload)

\* C31: for every accepted wire event the handler receives the full
\* normalized event, its image URLs and paths included; an accepted
\* image-only message passes the handler's empty-message check and its
\* images are in the media fields of the dispatch context.
C31_ImagesForwarded ==
  Forwarded =>
    /\ last.event.imageUrls = ParsedOfCall.imageUrls
    /\ last.event.imagePaths = ParsedOfCall.imagePaths
    /\ (trim(ParsedOfCall.text) = <<>> /\ Len(ParsedOfCall.images) > 0) =>
         /\ last.stage # "empty"
         /\ last.dispatched => last.media.present


\* ------------------------------------------------------------------------
\* Properties of the monitor's status patches
\* ------------------------------------------------------------------------
\* The monitor got past the enabled check and the sseUrl check.
MonitorStarted == mon.pc \notin {"none", "called"} /\ mon.enabled /\ trim(mon.sseUrl) # <<>>

MonitorExited == mon.pc \in {"returned", "threw"}

LastStatus == mon.statuses[Len(mon.statuses)]

\* The reconnect delay elapses and the monitor's onReconnect throws (its
\* call of the caller's status sink fails): attemptReconnect() and with it
\* connect() reject while the client is not aborted.
MonReconnectThrows ==
  /\ mon.pc = "connecting"
  /\ sse.pc = "waiting"
  /\ sse' = [sse EXCEPT !.reconnectCalls = sse.reconnectCalls + 1, !.timer = 0,
                        !.pc = "threw"]
  /\ mon' = statusSink(mon, StatusPatch(FALSE, "reconnect"))
  /\ UNCHANGED otherThanMonitor

NextStatus == NextMonitor \/ MonReconnectThrows

SpecStatus == InitMonitor /\ [][NextStatus]_vars

\* C32: the monitor publishes {connected: true, mode: "sse"} before the
\* first connection attempt completes; when connect() fails and the abort
\* signal is not aborted it publishes connected: false with lastDisconnect
\* and lastError, then re-throws; on every exit path the last patch it
\* published is connected: false.
C32_StatusPatches ==
  /\ sse.pc # "none" =>
       /\ mon.statuses # <<>>
       /\ mon.statuses[1] = StatusPatch(TRUE, "started")
  /\ (MonitorStarted /\ MonitorExited /\ sse.pc = "threw" /\ ~mon.abortSignalAborted) =>
       /\ mon.pc = "threw"
       /\ Len(mon.statuses) >= 3
       /\ mon.statuses[Len(mon.statuses) - 1] = StatusPatch(FALSE, "lastError")
  /\ (MonitorExited /\ mon.statuses # <<>>) => ~LastStatus.connected
  /\ (MonitorStarted /\ MonitorExited) => LastStatus = StatusPatch(FALSE, "finally")

C32_Witness ==
  /\ MonitorStarted
  /\ mon.pc = "threw"
  /\ sse.pc = "threw"
  /\ ~mon.abortSignalAborted
  /\ LastStatus = StatusPatch(FALSE, "finally")


\* ------------------------------------------------------------------------
\* Properties of the dispatch context's media fields
\* ------------------------------------------------------------------------
\* C33: the media lists of a dispatch context hold no duplicates: a URL or
\* path that occurs in several selected history entries or in an entry and
\* the current event appears once; with no media the fields are omitted.
C33_MediaDeduplicated ==
  (pc = "dispatching") =>
    /\ NoDuplicates(last.media.MediaUrls)
    /\ NoDuplicates(last.media.MediaPaths)
    /\ (RefsOfAll(last.selected) \o RefsOf(last.event) = <<>>) => last.media = NoMediaPayload


\* ------------------------------------------------------------------------
\* Token resolution for an account without a credential of its own
\* ------------------------------------------------------------------------
\* What the file named by accounts.work.accessTokenFile holds, trimmed.
AccountFileToken ==
  IF call.config.work.present
     /\ trim(call.config.work.accessTokenFile) = AccountTokenFile
     /\ call.files[AccountTokenFile] # Unreadable
  THEN trim(call.files[AccountTokenFile]) ELSE <<>>

\* The call is for the non-default account and the configuration gives it
\* neither an accessToken nor a readable non-empty accessTokenFile.
NoAccountCredential ==
  /\ call.pc = "token"
  /\ ~IsDefaultAccountCall
  /\ (call.config.work.present => trim(call.config.work.accessToken) = <<>>)
  /\ AccountFileToken = <<>>

\* C34 as stated: a non-default account without a credential of its own gets
\* the base accessToken ("config"), else the base accessTokenFile
\* ("configFile"), and the empty token only when those are absent too.
C34_AsStated ==
  \A run \in 1..2 :
    (Resolved(run) /\ NoAccountCredential) =>
      call.result[run] =
        IF trim(call.config.accessToken) # <<>>
        THEN [token |-> trim(call.config.accessToken), source |-> "config"]
        ELSE IF BaseFileToken # <<>>
             THEN [token |-> BaseFileToken, source |-> "configFile"]
             ELSE [token |-> <<>>, source |-> "none"]

\* C34: a non-default account without a credential of its own gets the
\* empty token with source "none", whatever the base accessToken, the base
\* accessTokenFile and the environment variable hold.
C34_NoAccountCredentialNoToken ==
  \A run \in 1..2 :
    (Resolved(run) /\ NoAccountCredential) => call.result[run] = NoToken

C34_Witness ==
  /\ Resolved(1)
  /\ NoAccountCredential
  /\ call.config.work.present
  /\ trim(call.config.accessToken) # <<>>
  /\ BaseFileToken # <<>>
  /\ call.result[1] = NoToken


\* ------------------------------------------------------------------------
\* Properties of the attachment fallback
\* ------------------------------------------------------------------------
\* C39: one sendMedia call never both completes the upload and sends the
\* "Attachment: <url>" fallback text: the fallback is sent only when the
\* upload failed, never because the caption send after a successful upload
\* failed.
C39_FallbackOnlyAfterFailedUpload ==
  \A i \in 1..Len(out.sends) :
    out.sends[i].kind = "fallback" =>
      /\ out.upload = "failed"
      /\ \A j \in 1..Len(out.sends) : out.sends[j].kind # "caption"


\* ------------------------------------------------------------------------
\* Outbound adapter: sendPayload
\* ------------------------------------------------------------------------
MaxMediaItems == 2

MediaSecond == <<"file:///n.png">>

\* Entries of payload.mediaUrls: "" (falsy) or a URL.
MediaListEntries == {<<>>, MediaFile, MediaSecond}

PayloadTexts == {CaptionNone, CaptionBlank, CaptionShort}

PayloadTargets == {TargetGroup42, TargetFoo}

\* payload.mediaUrls when it has entries, else [payload.mediaUrl] when that
\* is set, else [].
resolveMediaUrls(payload) ==
  IF Len(payload.mediaUrls) > 0 THEN payload.mediaUrls
  ELSE IF payload.mediaUrl # <<>> THEN <<payload.mediaUrl>>
  ELSE <<>>

captionForEveryItem(index, text) == text

\* const caption = index === 0 ? text : "" (index counted from 1 here).
captionFor(index, text) == IF index = 1 THEN text ELSE <<>>

NoResult == [status |-> "pending", messageId |-> NoId, error |-> "none"]

\* The sendPayload call about to be made: the adapter call record, with the
\* payload, the resolved media list, the loop index, what each finished
\* step did (itemLog) and the loop's `last`.
PayloadCall(target, text, mediaUrls, mediaUrl) ==
  [payload |-> [text |-> text, mediaUrls |-> mediaUrls, mediaUrl |-> mediaUrl],
   list |-> <<>>, itemIdx |-> 0, stage |-> "none", itemLog |-> <<>>,
   lastItem |-> NoResult, payloadResult |-> NoResult]
  @@ OutboundCall(0, target, <<>>, <<>>)

\* A step of sendPayload (a media item or a plain text send) starts with a
\* fresh record of its upload and sends.
stepStarts(o, stage, index, text, mediaUrl) ==
  [o EXCEPT !.stage = stage, !.itemIdx = index, !.text = text, !.mediaUrl = mediaUrl,
            !.pc = "called", !.kind = "none", !.chunks = <<>>, !.index = 0,
            !.lastMessageId = NoId, !.upload = "none", !.uploadError = "none",
            !.sends = <<>>, !.sentBeforeUploadSettled = FALSE,
            !.result = NoResult]

stepLogged(o) ==
  [o EXCEPT !.itemLog = Append(o.itemLog,
      [stage |-> o.stage, index |-> o.itemIdx, mediaUrl |-> o.mediaUrl,
       text |-> o.text, upload |-> o.upload, sends |-> o.sends,
       result |-> o.result])]

RECURSIVE sendPayloadResumes(_)
RECURSIVE nextMediaItem(_, _)

\* The for loop over the media list from position index, and what follows
\* it: falsy entries are skipped, an entry goes through
\* sendMediaWithFallback, after the last entry `last` is returned, or the
\* text is sent when no entry was sent.
nextMediaItem(o, index) ==
  IF index > Len(o.list)
  THEN IF o.lastItem # NoResult
       THEN [o EXCEPT !.pc = "returned", !.payloadResult = o.lastItem]
       ELSE sendPayloadResumes(
              sendMessageOneBot11(stepStarts(o, "text", 0, o.payload.text, <<>>),
                                  "text", o.payload.text))
  ELSE IF o.list[index] = <<>> THEN nextMediaItem(o, index + 1)
  ELSE sendPayloadResumes(
         sendMedia(stepStarts(o, "item", index, captionFor(index, o.payload.text),
                              o.list[index])))

\* sendPayloadOneBot11 after an awaited step made progress: when the step
\* has settled, a rejection rejects the call, a text send's result is
\* returned, a media item's result becomes `last` and the loop goes on.
sendPayloadResumes(o) ==
  IF o.pc # "done" THEN o
  ELSE IF o.result.status = "failed"
       THEN [stepLogged(o) EXCEPT !.pc = "returned", !.payloadResult = o.result]
       ELSE IF o.stage = "text"
            THEN [stepLogged(o) EXCEPT !.pc = "returned", !.payloadResult = o.result]
            ELSE nextMediaItem([stepLogged(o) EXCEPT !.lastItem = o.result], o.itemIdx + 1)

\* sendPayloadOneBot11 up to its first await.
sendPayloadOneBot11(o) ==
  LET resolved == [o EXCEPT !.list = resolveMediaUrls(o.payload)]
  IN IF Len(resolved.list) = 0
     THEN sendPayloadResumes(
            sendMessageOneBot11(stepStarts(resolved, "text", 0, o.payload.text, <<>>),
                                "text", o.payload.text))
     ELSE nextMediaItem(resolved, 1)

PaySendPayload ==
  /\ out.pc = "called"
  /\ out.stage = "none"
  /\ out' = sendPayloadOneBot11(out)
  /\ UNCHANGED otherThanOutbound

PayUploadSettles(outcome) ==
  /\ out.pc = "uploading"
  /\ out' = sendPayloadResumes(uploadSettled(out, outcome))
  /\ UNCHANGED otherThanOutbound

PayChunkSettles(outcome) ==
  /\ out.pc = "sending"
  /\ out' = sendPayloadResumes(chunkSettled(out, outcome))
  /\ UNCHANGED otherThanOutbound

InitPayload ==
  /\ cfg = BaseConfig
  /\ groupHistories = [k \in ChatIds |-> <<>>]
  /\ pairingRequests = {}
  /\ storeAllowFrom = <<>>
  /\ pc = "idle"
  /\ last = NoOutcome
  /\ arrivals = [k \in ChatIds |-> <<>>]
  /\ nEvents = 0
  /\ sse = NoSseClient
  /\ \E target \in PayloadTargets, text \in PayloadTexts,
        mediaUrls \in SeqsUpTo(MediaListEntries, MaxMediaItems),
        mediaUrl \in MediaUrlInputs :
       out = PayloadCall(target, text, mediaUrls, mediaUrl)
  /\ call = NoCall
  /\ mon = NoMonitor

NextPayload ==
  \/ PaySendPayload
  \/ \E outcome \in UploadOutcomes : PayUploadSettles(outcome)
  \/ \E outcome \in ChunkOutcomes : PayChunkSettles(outcome)

SpecPayload == InitPayload /\ [][NextPayload]_vars

\* ------------------------------------------------------------------------
\* Properties of sendPayload
\* ------------------------------------------------------------------------
PayloadStarted == out.pc # "none" /\ out.stage # "none"

PayloadReturned == PayloadStarted /\ out.pc = "returned"

PayloadList ==
  IF Len(out.payload.mediaUrls) > 0 THEN out.payload.mediaUrls
  ELSE IF out.payload.mediaUrl # <<>> THEN <<out.payload.mediaUrl>> ELSE <<>>

\* The positions of the media list that hold a URL, in list order.
TruthyPositions ==
  SelectSeq([i \in 1..Len(PayloadList) |-> i], LAMBDA i : PayloadList[i] # <<>>)

ItemSteps == SelectSeq(out.itemLog, LAMBDA step : step.stage = "item")

TextSteps == SelectSeq(out.itemLog, LAMBDA step : step.stage = "text")

\* A media item went through the upload-with-fallback path with this
\* caption: an upload attempt, then at most the caption send and the
\* fallback send.
ThroughUploadWithFallback(step) ==
  /\ step.upload \in {"ok", "failed"}
  /\ \A j \in 1..Len(step.sends) : step.sends[j].kind \in {"caption", "fallback"}
  /\ trim(step.text) = <<>> =>
       \A j \in 1..Len(step.sends) : step.sends[j].kind # "caption"
  /\ \A j \in 1..Len(step.sends) :
       step.sends[j].kind = "caption" => step.sends[j].text = step.text

SendsCarryingText ==
  {p \in (1..Len(out.itemLog)) \X (1..4) :
     /\ p[2] <= Len(out.itemLog[p[1]].sends)
     /\ out.itemLog[p[1]].sends[p[2]].outcome = "ok"
     /\ Contains(out.itemLog[p[1]].sends[p[2]].text, out.payload.text)}

\* C40: sendPayload never drops the payload text: for a non-blank text and
\* a media list with at least one URL, the text is in exactly one message
\* sent (the caption after an upload, or the fallback text), also when the
\* first entry of the list is empty.
C40_TextSentOnce ==
  (PayloadReturned /\ out.payloadResult.status = "ok"
     /\ trim(out.payload.text) # <<>> /\ TruthyPositions # <<>>) =>
    Cardinality(SendsCarryingText) = 1

\* ------------------------------------------------------------------------
\* SSE client: the text of the stream, cut into chunks
\* ------------------------------------------------------------------------
MaxStreamLen == 6

MaxCuts == 1

CR == "\r"
LF == "\n"
DataPrefix == "data:"
One == "1"

\* The characters of a response body: line ends, the "data:" prefix and a
\* digit (a run of digits is a JSON number).
StreamToks == {CR, LF, DataPrefix, One}

RECURSIVE normalizeSseChunkDelimiters(_)
\* input.replace(/\r\n/g, "\n").replace(/\r/g, "\n")
normalizeSseChunkDelimiters(input) ==
  IF input = <<>> THEN <<>>
  ELSE IF Head(input) = CR /\ Len(input) > 1 /\ input[2] = LF
       THEN <<LF>> \o normalizeSseChunkDelimiters(Tail(Tail(input)))
       ELSE IF Head(input) = CR
            THEN <<LF>> \o normalizeSseChunkDelimiters(Tail(input))
            ELSE <<Head(input)>> \o normalizeSseChunkDelimiters(Tail(input))

\* buffer.indexOf("\n\n"), from 1; 0 when there is none.
indexOfBlankLine(buffer) ==
  IF \E i \in 1..(Len(buffer) - 1) : buffer[i] = LF /\ buffer[i + 1] = LF
  THEN CHOOSE i \in 1..(Len(buffer) - 1) :
         /\ buffer[i] = LF /\ buffer[i + 1] = LF
         /\ \A j \in 1..(i - 1) : ~(buffer[j] = LF /\ buffer[j + 1] = LF)
  ELSE 0

RECURSIVE splitLines(_)
\* block.split("\n")
splitLines(block) ==
  IF \E i \in 1..Len(block) : block[i] = LF
  THEN LET i == CHOOSE i \in 1..Len(block) :
                  block[i] = LF /\ \A j \in 1..(i - 1) : block[j] # LF
       IN <<SubSeq(block, 1, i - 1)>> \o splitLines(SubSeq(block, i + 1, Len(block)))
  ELSE <<block>>

RECURSIVE joinLines(_)
\* dataLines.join("\n")
joinLines(lines) ==
  IF lines = <<>> THEN <<>>
  ELSE IF Len(lines) = 1 THEN lines[1]
       ELSE lines[1] \o <<LF>> \o joinLines(Tail(lines))

IsBlankTok(t) == t \in {CR, LF, WS}

RECURSIVE trimBlank(_)
\* String.prototype.trim over text that may hold line ends.
trimBlank(text) ==
  IF text = <<>> THEN <<>>
  ELSE IF IsBlankTok(Head(text)) THEN trimBlank(Tail(text))
       ELSE IF IsBlankTok(text[Len(text)]) THEN trimBlank(SubSeq(text, 1, Len(text) - 1))
            ELSE text

\* JSON.parse succeeds: the text is a number.
isJsonText(data) == data # <<>> /\ \A i \in 1..Len(data) : data[i] = One

\* The data string of an event block: its "data:" lines without the prefix,
\* joined by "\n" and trimmed; NoData when the block has no "data:" line.
NoData == <<"no data lines">>

eventData(block) ==
  LET dataLines == SelectSeq(splitLines(block),
                             LAMBDA line : line # <<>> /\ Head(line) = DataPrefix)
  IN IF dataLines = <<>> THEN NoData
     ELSE trimBlank(joinLines([i \in 1..Len(dataLines) |-> trimBlank(Tail(dataLines[i]))]))

\* processEventBlock on text: the payloads delivered so far, with the
\* block's payload appended when its data parses.
deliverBlock(delivered, block) ==
  LET data == eventData(block)
  IN IF data = NoData \/ data = <<>> THEN delivered
     ELSE IF isJsonText(data) THEN Append(delivered, data)
     ELSE delivered

RECURSIVE drainBuffer(_)
\* The while loop over complete blocks of the buffer.
drainBuffer(r) ==
  LET eventEnd == indexOfBlankLine(r.buffer)
  IN IF eventEnd = 0 THEN r
     ELSE drainBuffer([buffer |-> SubSeq(r.buffer, eventEnd + 2, Len(r.buffer)),
                       delivered |-> deliverBlock(r.delivered,
                                                  SubSeq(r.buffer, 1, eventEnd - 1))])

RECURSIVE readChunks(_, _)
\* The for-await loop over the chunks of the body.
readChunks(r, chunks) ==
  IF chunks = <<>> THEN r
  ELSE readChunks(
         drainBuffer([r EXCEPT !.buffer = r.buffer \o normalizeSseChunkDelimiters(Head(chunks))]),
         Tail(chunks))

\* processStream over a body that ends normally: the payloads handed to the
\* event callback, in order.
processStreamText(chunks) ==
  LET r == readChunks([buffer |-> <<>>, delivered |-> <<>>], chunks)
  IN IF trimBlank(r.buffer) # <<>> THEN deliverBlock(r.delivered, r.buffer)
     ELSE r.delivered

RECURSIVE cutInto(_, _, _)
\* The transport delivers the content in chunks that end at the positions
\* in cuts (from is the position before the current chunk).
cutInto(content, cuts, from) ==
  IF from >= Len(content) THEN <<>>
  ELSE LET later == {c \in cuts : c > from}
           to == IF later = {} THEN Len(content)
                 ELSE CHOOSE c \in later : \A d \in later : c <= d
       IN <<SubSeq(content, from + 1, to)>> \o cutInto(content, cuts, to)

\* The same content read twice: in one chunk and cut at cuts.
StreamCall(content, cuts) ==
  [pc |-> "stream", content |-> content, cuts |-> cuts,
   result |-> [run \in 1..2 |-> NotApplied]]

StreamRead(run) ==
  /\ call.pc = "stream"
  /\ call.result[run] = NotApplied
  /\ call' = [call EXCEPT !.result[run] =
                [delivered |-> processStreamText(
                                 cutInto(call.content,
                                         IF run = 1 THEN {} ELSE call.cuts, 0))]]
  /\ UNCHANGED otherThanCall

InitFrames ==
  /\ NothingElseRunning
  /\ \E content \in SeqsUpTo(StreamToks, MaxStreamLen) :
       \E cuts \in SUBSET (1..(Len(content) - 1)) :
         /\ Cardinality(cuts) <= MaxCuts
         /\ call = StreamCall(content, cuts)

NextFrames == \E run \in 1..2 : StreamRead(run)

SpecFrames == InitFrames /\ [][NextFrames]_vars

BothRead == call.pc = "stream" /\ call.result[1] # NotApplied /\ call.result[2] # NotApplied

\* C36: the payloads delivered to the event callback depend only on the
\* content of the stream, not on how the transport cuts it into chunks (a
\* cut between the CR and the LF of a line ending included): both readings
\* deliver the same events in the same order.
C36_ChunkingInvariant ==
  BothRead => call.result[1].delivered = call.result[2].delivered

\* ------------------------------------------------------------------------
\* Two accounts of one process handling events of the same group
\* ------------------------------------------------------------------------
MaxAccountEvents == 3

\* Each account has its own monitor, and each monitor calls the handler with
\* its own account; the pending-history map is the module's, shared by all.
Accounts == {"default", "work"}

IdleHandler == [pc |-> "idle", outcome |-> NoOutcome, removed |-> <<>>]

\* via[m]: the account whose handler received the event with message id m.
AccountsCall ==
  [pc |-> "accounts", handler |-> [a \in Accounts |-> IdleHandler], via |-> <<>>]

SharedGroupConfigs ==
  { [BaseConfig EXCEPT !.groupPolicy = "open", !.historyLimit = n] :
      n \in 1..MaxHistoryLimit }

AccountEvents ==
  { [BaseEvent EXCEPT !.chatType = "group", !.chatId = g, !.senderId = U8,
                      !.wasMentioned = w] :
      g \in {G5, GG}, w \in BOOLEAN }

\* The handler of one account runs from its entry to its return or to the
\* awaited dispatch.
AccountHandles(a, ev) ==
  /\ call.pc = "accounts"
  /\ call.handler[a].pc = "idle"
  /\ nEvents < MaxAccountEvents
  /\ \E o \in {Pipeline(cfg, groupHistories, pairingRequests, <<>>,
                         [ev EXCEPT !.messageId = nEvents + 1,
                                    !.timestampMs = nEvents + 1])} :
        /\ groupHistories' =
             IF o.recorded THEN recordDroppedEntry(groupHistories, cfg, o)
             ELSE groupHistories
        /\ call' = [call EXCEPT
                      !.handler[a] = [pc |-> IF o.dispatched THEN "dispatching" ELSE "idle",
                                      outcome |-> o, removed |-> <<>>],
                      !.via = Append(@, a)]
  /\ nEvents' = nEvents + 1
  /\ UNCHANGED <<cfg, pairingRequests, storeAllowFrom, pc, last, arrivals>>
  /\ UNCHANGED <<sse, out, mon>>

\* The dispatch awaited by one account's handler returns; the handler
\* clears the chat's buffer.
AccountDispatchReturns(a, queuedFinal) ==
  /\ call.pc = "accounts"
  /\ call.handler[a].pc = "dispatching"
  /\ LET ev == call.handler[a].outcome.event
     IN /\ groupHistories' = clearAfterDispatch(groupHistories, cfg, ev, queuedFinal)
        /\ call' = [call EXCEPT
                      !.handler[a].pc = "idle",
                      !.handler[a].removed =
                         removedByClear(groupHistories[ev.chatId],
                                        groupHistories'[ev.chatId])]
  /\ UNCHANGED <<cfg, pairingRequests, storeAllowFrom, pc, last, arrivals, nEvents>>
  /\ UNCHANGED <<sse, out, mon>>

InitAccounts ==
  /\ cfg \in SharedGroupConfigs
  /\ groupHistories = [k \in ChatIds |-> <<>>]
  /\ pairingRequests = {}
  /\ storeAllowFrom = <<>>
  /\ pc = "idle"
  /\ last = NoOutcome
  /\ arrivals = [k \in ChatIds |-> <<>>]
  /\ nEvents = 0
  /\ sse = NoSseClient
  /\ out = NoOutbound
  /\ call = AccountsCall
  /\ mon = NoMonitor

NextAccounts ==
  \/ \E a \in Accounts, ev \in AccountEvents : AccountHandles(a, ev)
  \/ \E a \in Accounts, q \in BOOLEAN : AccountDispatchReturns(a, q)

SpecAccounts == InitAccounts /\ [][NextAccounts]_vars

RecordedThrough(a, entries) ==
  \A i \in 1..Len(entries) : call.via[entries[i].messageId] = a

\* C37: group history buffered while handling the events of one account is
\* never injected into, nor cleared by, a dispatch made for another account:
\* the entries an account's dispatch sees, and the entries its clear
\* removes, were all recorded through that account.
C37_HistoryPerAccount ==
  call.pc = "accounts" =>
    \A a \in Accounts :
      /\ call.handler[a].outcome.dispatched =>
           RecordedThrough(a, call.handler[a].outcome.selected)
      /\ RecordedThrough(a, call.handler[a].removed)

\* ------------------------------------------------------------------------
\* Properties of the reconnect callback after close()
\* ------------------------------------------------------------------------
ReconnectPatches(m) ==
  Cardinality({i \in 1..Len(m.statuses) : m.statuses[i].kind = "reconnect"})

ClientClosed == sse.pc # "none" /\ sse.closed

\* C38: once close() has been called on the client, its reconnect callback
\* is never invoked again, also when close() arrives while the client waits
\* out a reconnect delay; so the monitor publishes no reconnectAttempts
\* status once its stop handle or abort signal has fired.
C38_NoReconnectAfterClose ==
  [][ClientClosed =>
       /\ sse'.reconnectCalls = sse.reconnectCalls
       /\ ReconnectPatches(mon') = ReconnectPatches(mon)]_vars

====
